---- MODULE Spec2Model ----
(***************************************************************************)
(* A model of the task scheduler of backend/agents/scheduler.py            *)
(* (class TaskScheduler): the priority queue, the agent pools, the         *)
(* assignment loop, the per-task execution coroutine, cancellation and     *)
(* subtasks.                                                               *)
(*                                                                         *)
(* The scheduler runs on one asyncio event loop, so a coroutine runs       *)
(* without interruption from one await that suspends to the next.  An      *)
(* action of this model is one such uninterrupted stretch.                 *)
(***************************************************************************)
EXTENDS Integers, Sequences, FiniteSets, TLC

\* ------------------------------------------------------------------ bounds
MaxTasks == 3
MaxAgents == 2
MaxTime == 2
MaxRetries == 2
\* the event bus: events published, subscriber callbacks, wait_for_event
\* calls, and the capacity of the event history (self.max_history_size, 1000
\* in the source, scaled down)
MaxEvents == 2
MaxSubscribers == 2
MaxWaiters == 1
MaxHistory == 2
\* the communication interface: agents, stored messages, and system messages
\* whose task has not run yet
MaxCommAgents == 3
MaxMessages == 3
MaxPending == 2
MaxDepartures == 2
\* the action executor: the nested execute_action calls of one action
MaxDepth == 4
\* the actions of a batch of execute_actions or execute_with_dependencies
MaxBatch == 3
\* the decision engine: the lines of a response, the actions of a decision
MaxLines == 3
MaxActions == 3
\* make_decision calls in progress at the same time
MaxDecisions == 2

\* ------------------------------------------------------- program constants
\* class TaskPriority
CRITICAL == 0
HIGH == 1
MEDIUM == 2
LOW == 3
\* Task.max_retries default, used by create_subtask
DefaultMaxRetries == 3
\* the re-check delay of a task whose dependencies are not met
DepRecheckDelay == 5
\* EventHandler.num_processors
num_processors == 2
\* EventHandler.max_history_size
max_history_size == MaxHistory

\* class TaskStatus
PENDING == "pending"
ASSIGNED == "assigned"
IN_PROGRESS == "in_progress"
COMPLETED == "completed"
FAILED == "failed"
CANCELLED == "cancelled"

\* class AgentType
EXECUTIVE == "executive"
MANAGER == "manager"
TASK == "task"
AgentTypes == {EXECUTIVE, MANAGER, TASK}

\* Optional[...] fields that are None
None == "none"

TaskIds == 1..MaxTasks
AgentIds == 1..MaxAgents
Priorities == {CRITICAL, HIGH, MEDIUM, LOW}

\* Agent.type: fixed by the agent's configuration; agent ids 1, 2, 3, 4, ...
\* are executive, manager, task, executive, ... agents.
AgentTypeOf(a) ==
  CASE a % 3 = 1 -> EXECUTIVE
    [] a % 3 = 2 -> MANAGER
    [] OTHER -> TASK

VARIABLES
  tasks,             \* self.tasks: task_id -> Task
  task_queue,        \* self.task_queue: the heap, a set of <<priority, timestamp, task_id>>
  active_tasks,      \* self.active_tasks: task_id -> agent_id (the future is proc)
  agents,            \* self.agents: the registered agent ids
  available_agents,  \* self.available_agents: AgentType -> list of agent ids
  task_callbacks,    \* self.task_callbacks: the task ids with a registered callback
  running,           \* self.running
  spinning,          \* the assignment loop holds the event loop (it took a `continue`)
  proc,              \* the state of each task's _process_task future
  now,               \* the clock
  attempts,          \* history: how many times agent.run was started for a task
  cb_calls,          \* history: how many times a task's callback was invoked
  scenario           \* the sets the run draws the inputs of its operations from

\* EventHandler
VARIABLES
  published,            \* the events published so far; an event's id is its index
  event_queue,          \* self.event_queue: the ids of the events not yet taken
  subscribers,          \* self.subscribers: EventType -> set of callbacks
  global_subscribers,   \* self.global_subscribers
  subscriber_filters,   \* self.subscriber_filters: callback -> filter function
  registered,           \* the filter each subscribed callback last passed to subscribe
  recent,               \* history: the last get_recent_events call and its result
  bus_running,          \* self.running
  event_processors,     \* the state of each _event_processing_loop task
  draining,             \* the processor that holds the event loop (0: none)
  event_history,        \* self.event_history
  events_processed,     \* self.events_processed
  waiters,              \* the wait_for_event calls: future, arguments, result
  delivered,            \* history: the <<callback, event>> calls made
  raised,               \* history: the <<callback, event>> calls that raised
  filtered_subscribers, \* history: event -> the filtered_subscribers of _process_event
  processed             \* history: the events whose _process_event returned

\* CommunicationInterface
VARIABLES
  agent_directory,       \* self.agent_directory: the registered agent ids
  message_handlers,      \* self.message_handlers: the agents with a handler
  messages,              \* self.messages: message id -> AgentMessage
  conversations,         \* self.conversations: conversation id -> AgentConversation
  active_conversations,  \* self.active_conversations
  system_tasks,          \* the system messages whose sending task has not run
  comm_log,              \* history: if the last operation was a send_message, the
                         \* messages it was called with (the acknowledgments
                         \* too), stored, and called handlers with, in order
  send_result            \* history: what that send_message returned (0: None)

scheduler_vars == <<tasks, task_queue, active_tasks, agents, available_agents,
                    task_callbacks, running, spinning, proc, now, attempts,
                    cb_calls, scenario>>

event_vars == <<published, event_queue, subscribers, global_subscribers,
                subscriber_filters, registered, recent, bus_running, event_processors, draining,
                event_history, events_processed, waiters, delivered, raised,
                filtered_subscribers, processed>>

\* ActionExecutor, for one action id
VARIABLES
  action,             \* the action execute_action was called with
  exec_pc,            \* the innermost execute_action call: "idle" before the
                      \* call, "running" awaiting the execution task, "backoff"
                      \* in the sleep of _retry_action, "returned"
  exec_depth,         \* the execute_action calls on the stack (a retry nests)
  waited,             \* the time waited since the handler or the sleep started
  handler_tasks,      \* the tasks of handler(action), in the order created
  active_executions,  \* action_id in self.active_executions
  action_results,     \* self.action_results[action_id] (None: no entry)
  exec_result,        \* what the outermost execute_action returned
  cancel_result       \* history: the last cancel_action call, what it returned,
                      \* where execute_action was and how many handler tasks
                      \* there were

comm_vars == <<agent_directory, message_handlers, messages, conversations,
               active_conversations, system_tasks, comm_log, send_result>>

exec_vars == <<action, exec_pc, exec_depth, waited, handler_tasks,
               active_executions, action_results, exec_result, cancel_result>>

\* ActionExecutor.execute_actions and execute_with_dependencies, for one call
VARIABLES
  batch_call,   \* the call: its mode (None: no call yet) and its actions
  batch_pc,     \* "idle" before the call, "running", "returned"
  pending,      \* execute_with_dependencies' pending: the ids not yet started
  completed,    \* execute_with_dependencies' completed
  executable,   \* the ids of the actions execute_actions was called with
  executions,   \* id -> the execute_action call of the action of that id
  results       \* the results of the call: id -> ActionResult

batch_vars == <<batch_call, batch_pc, pending, completed, executable, executions,
                results>>

\* DecisionEngine
VARIABLES
  parsed,     \* the last _parse_decision_from_response call: whether there was
              \* one, its response_text and the DecisionResult it returned
  executed,   \* the last execute_decision call: whether there was one, its
              \* decision and what it returned
  deciding,   \* the number of make_decision calls that wait for their
              \* executive agent's run
  decided     \* history: the last make_decision call that ended: whether
              \* there was one, and whether it returned or raised

decision_vars == <<parsed, executed, deciding, decided>>

vars == <<scheduler_vars, event_vars, comm_vars, exec_vars, batch_vars, decision_vars>>

\* ----------------------------------------------------------------- helpers
NoAgent == 0
\* Task.scheduled_for is None
NoTime == -1
\* create_subtask's priority argument is None
NoPriority == -1
Terminal == {COMPLETED, FAILED, CANCELLED}
NoProc == [pc |-> "none", agent |-> NoAgent]

RECURSIVE Pow2(_)
\* 2 ** n
Pow2(n) == IF n = 0 THEN 1 ELSE 2 * Pow2(n - 1)

Range(s) == {s[i] : i \in 1..Len(s)}

\* list.remove(x): drops the first occurrence of x
RemoveFirst(s, x) ==
  LET i == CHOOSE k \in 1..Len(s) : s[k] = x /\ \A j \in 1..(k - 1) : s[j] # x
  IN  SubSeq(s, 1, i - 1) \o SubSeq(s, i + 1, Len(s))

\* (a variant that orders the tuples by timestamp first)
KeyLess_TimeFirst(e, f) ==
  \/ e[2] < f[2]
  \/ e[2] = f[2] /\ e[1] < f[1]
  \/ e[2] = f[2] /\ e[1] = f[1] /\ e[3] < f[3]

\* (a variant that breaks ties of priority by task id, not by timestamp)
KeyLess_IdFirst(e, f) ==
  \/ e[1] < f[1]
  \/ e[1] = f[1] /\ e[3] < f[3]

\* Python's order on the heap's tuples (priority, timestamp, task_id)
KeyLess(e, f) ==
  \/ e[1] < f[1]
  \/ e[1] = f[1] /\ e[2] < f[2]
  \/ e[1] = f[1] /\ e[2] = f[2] /\ e[3] < f[3]

\* task_queue[0]: the least tuple of the heap
HeapMin(q) == CHOOSE e \in q : \A f \in q \ {e} : KeyLess(e, f)
HeapPush(q, e) == q \cup {e}
HeapPop(q) == q \ {HeapMin(q)}

\* the Task a submit stores
NewTask(prio, mr, deps, req) ==
  [status |-> PENDING, priority |-> prio,
   scheduled_for |-> NoTime, retry_count |-> 0, max_retries |-> mr,
   dependencies |-> deps, required_agent_type |-> req,
   subtask_ids |-> <<>>]

\* all_available of the assignment loop
AllAvailable == Len(available_agents[EXECUTIVE]) + Len(available_agents[MANAGER])
                + Len(available_agents[TASK])

\* (a variant that skips the ids that are not in self.tasks)
DependenciesMet_SkipUnknown(task) ==
  \A d \in task.dependencies : d \in DOMAIN tasks => tasks[d].status = COMPLETED

\* the dependency check of the assignment loop
DependenciesMet(task) ==
  \A d \in task.dependencies : d \in DOMAIN tasks /\ tasks[d].status = COMPLETED

\* the loop's test of scheduled_for against the clock
ScheduledInFuture(task) ==
  task.scheduled_for # NoTime /\ task.scheduled_for > now

\* (a variant that compares with <=)
CanRetry_OffByOne(task) == task.retry_count <= task.max_retries

\* the retry test of _process_task's exception handler
CanRetry(task) == task.retry_count < task.max_retries

\* the backoff delay of a task that is retried: 2 ** retry_count
RetryDelay(retry_count) == Pow2(retry_count)

\* (a variant that falls back to the other tiers when no agent of the
\* required type is available)
FindAgentType_Fallback(task) ==
  IF task.required_agent_type # None /\ available_agents[task.required_agent_type] # <<>>
  THEN task.required_agent_type
  ELSE IF available_agents[EXECUTIVE] # <<>> THEN EXECUTIVE
  ELSE IF available_agents[MANAGER] # <<>> THEN MANAGER
  ELSE IF available_agents[TASK] # <<>> THEN TASK
  ELSE None

\* the pool _find_available_agent takes an agent from (None: no agent)
FindAgentType(task) ==
  IF task.required_agent_type # None
  THEN IF available_agents[task.required_agent_type] # <<>>
       THEN task.required_agent_type ELSE None
  ELSE IF task.priority \in {CRITICAL, HIGH} /\ available_agents[EXECUTIVE] # <<>>
       THEN EXECUTIVE
  ELSE IF task.priority = MEDIUM /\ available_agents[MANAGER] # <<>>
       THEN MANAGER
  ELSE IF task.priority = LOW /\ available_agents[TASK] # <<>>
       THEN TASK
  ELSE IF available_agents[EXECUTIVE] # <<>> THEN EXECUTIVE
  ELSE IF available_agents[MANAGER] # <<>> THEN MANAGER
  ELSE IF available_agents[TASK] # <<>> THEN TASK
  ELSE None

\* _find_available_agent: the agent id it returns (NoAgent: None)
FindAvailableAgent(task) ==
  IF FindAgentType(task) = None THEN NoAgent
  ELSE Head(available_agents[FindAgentType(task)])

\* ... and the pools it leaves
PoolsAfterFind(task) ==
  IF FindAgentType(task) = None THEN available_agents
  ELSE [available_agents EXCEPT
          ![FindAgentType(task)] = RemoveFirst(@, Head(@))]

\* create_subtask: `priority or parent_task.priority` (CRITICAL is 0, which
\* Python's `or` takes for false)
SubtaskPriority(prio, parent) ==
  IF prio = NoPriority \/ prio = 0 THEN parent.priority ELSE prio

\* create_subtask: the dependency on a parent that is not completed
SubtaskDependencies(p) ==
  IF tasks[p].status # COMPLETED THEN {p} ELSE {}

\* ===========================================================================
\* The communication interface of backend/agents/communication.py (class
\* CommunicationInterface): the agent directory, the message handlers, the
\* message store, the conversations, and the system messages that register,
\* unregister and leave send from tasks of their own.  send_message has no
\* await that suspends (the event queue is unbounded), so one send, with its
\* deliveries and acknowledgments, is one action.
\* ===========================================================================
\* the sender "system", which is in no directory
System == 0
\* two members of class MessageType; the others are treated like "request"
BROADCAST == "broadcast"
RESPONSE == "response"

CommInitState ==
  /\ agent_directory = {}
  /\ message_handlers = {}
  /\ messages = <<>>
  /\ conversations = <<>>
  /\ active_conversations = {}
  /\ system_tasks = <<>>
  /\ comm_log = <<>>
  /\ send_result = 0

\* ===========================================================================
\* The action executor of backend/agents/executor.py (class ActionExecutor),
\* for the execution of one action: execute_action creates the execution task
\* (_execute_with_timeout, which waits for _execute_handler with the timeout;
\* _execute_handler creates the task of handler(action) and waits for it or
\* for the cancel event), awaits it, and on an exception of the handler calls
\* _retry_action, which sleeps and calls execute_action again with a copy of
\* the action (same action_id).
\* ===========================================================================
\* "attempts = 1" of execute_action, which no statement of the call increments
exec_attempts == 1

\* asyncio.wait raises TypeError when it is passed a coroutine, as
\* _execute_handler does with self._wait_for_cancel(cancel_event): so it is
\* from Python 3.11 on; up to 3.10 the coroutine is wrapped in a task.  The
\* scenario fixes the interpreter.
WaitRejectsCoroutines == scenario = "exec_py311"

ExecInitState ==
  /\ action = None
  /\ exec_pc = "idle"
  /\ exec_depth = 0
  /\ waited = 0
  /\ handler_tasks = <<>>
  /\ active_executions = FALSE
  /\ action_results = None
  /\ exec_result = None
  /\ cancel_result = [called |-> FALSE]
  /\ batch_call = [mode |-> None, actions |-> <<>>]
  /\ batch_pc = "idle"
  /\ pending = {}
  /\ completed = {}
  /\ executable = {}
  /\ executions = <<>>
  /\ results = <<>>

\* DecisionEngine.__init__: nothing parsed, no decision executed
DecisionInitState ==
  /\ parsed = [called |-> FALSE]
  /\ executed = [called |-> FALSE]
  /\ deciding = 0
  /\ decided = [called |-> FALSE]

\* ===========================================================================
\* The event bus of backend/agents/events.py (class EventHandler): the FIFO
\* event queue, the processors that take events from it, the subscriber sets
\* by event type and the global one, the subscribers' filters, the history
\* and wait_for_event.  The processors and the callers share one asyncio
\* event loop: an action is one stretch between two awaits that suspend.
\* ===========================================================================
\* two members of class EventType
TASK_CREATED == "task_created"
CUSTOM_EVENT == "custom_event"
EventTypes == {TASK_CREATED, CUSTOM_EVENT}
\* Event.data, as far as a filter looks at it
EventData == {0, 1}

EventIds == 1..MaxEvents
SubscriberIds == 1..MaxSubscribers
WaiterIds == 1..MaxWaiters
ProcessorIds == 1..num_processors
\* the event_callback closure of the k-th wait_for_event call
WaiterCallback(k) == MaxSubscribers + k

\* asyncio.iscoroutine(subscriber(event)): the callbacks with an odd id are
\* coroutine functions that suspend once, the others are plain functions
IsCoroutine(cb) == cb \in SubscriberIds /\ cb % 2 = 1

\* the filter functions subscribers register: one that accepts the events
\* with data 1, and one that reads a key the events with data 0 lack
AcceptsOne == "accepts_one"
Fragile == "fragile"

\* filter_func(event): "accept", "reject" or "raise"
FilterResult(f, ev) ==
  CASE f = AcceptsOne -> IF ev.data = 1 THEN "accept" ELSE "reject"
    [] f = Fragile -> IF ev.data = 1 THEN "accept" ELSE "raise"
    [] OTHER -> "accept"

\* a processor that waits in queue.get ("idle"), and one that is not created
\* or was cancelled ("none")
Processor(pc) == [pc |-> pc, event |-> 0, awaiting |-> 0, rest |-> <<>>]
NoWaiter == [pc |-> "none", type |-> None, filter |-> None, timeout |-> NoTime,
             deadline |-> NoTime, result |-> 0]

\* event_types is None
NoTypes == {None}

\* the orders in which a loop over the set S can visit its members
Orders(S) ==
  {s \in [1..Cardinality(S) -> S] : \A i, j \in 1..Cardinality(S) : s[i] = s[j] => i = j}

EventInitState ==
  /\ published = <<>>
  /\ event_queue = <<>>
  /\ subscribers = [ty \in EventTypes |-> {}]
  /\ global_subscribers = {}
  /\ subscriber_filters = <<>>
  /\ registered = <<>>
  /\ recent = [called |-> FALSE]
  /\ bus_running = FALSE
  /\ event_processors = [w \in ProcessorIds |-> Processor("none")]
  /\ draining = 0
  /\ event_history = <<>>
  /\ events_processed = 0
  /\ waiters = [k \in WaiterIds |-> NoWaiter]
  /\ delivered = {}
  /\ raised = {}
  /\ filtered_subscribers = <<>>
  /\ processed = {}

\* ------------------------------------------------------------------- state
InitState ==
  /\ tasks = [t \in {} |-> None]
  /\ task_queue = {}
  /\ active_tasks = [t \in {} |-> NoAgent]
  /\ agents = {}
  /\ available_agents = [ty \in AgentTypes |-> <<>>]
  /\ task_callbacks = {}
  /\ running = FALSE
  /\ spinning = FALSE
  /\ proc = [t \in TaskIds |-> NoProc]
  /\ now = 0
  /\ attempts = [t \in TaskIds |-> 0]
  /\ cb_calls = [t \in TaskIds |-> 0]

\* the scenarios of Spec (see the inputs below)
Scenarios == {"deps", "retry", "callback", "route"}

Init ==
  InitState /\ scenario \in Scenarios /\ EventInitState /\ CommInitState /\ ExecInitState /\ DecisionInitState

\* ------------------------------------------------------------------ inputs
\* The inputs of submit_task and create_subtask.  A run draws them from the
\* sets of one scenario, fixed at the start, each of which varies some of a
\* task's attributes and keeps the others at their defaults:
\*   "deps"      dependencies (also on ids not submitted yet, so cycles) and
\*               subtasks, three tasks;
\*   "retry"     max_retries, with a clock that runs long enough for two
\*               backoffs;
\*   "callback"  completion callbacks (which may raise) and max_retries;
\*   "route"     priorities and required agent types;
\*   "live"      dependencies and max_retries, two tasks (the runs LiveSpec
\*               checks progress on);
\*   "starve"    required agent types, three tasks (the runs StarveSpec
\*               checks the progress of the tasks behind the head on).
ScenarioTasks == IF scenario \in {"deps", "decide", "starve"} THEN TaskIds ELSE 1..(MaxTasks - 1)
SubmitPriorities ==
  IF scenario = "route" THEN Priorities ELSE {MEDIUM}
SubmitMaxRetries ==
  CASE scenario = "retry" -> 0..MaxRetries
    [] scenario \in {"callback", "live"} -> 0..(MaxRetries - 1)
    [] OTHER -> {0}
SubmitDependencies(t) ==
  IF scenario \in {"deps", "live"} THEN SUBSET (TaskIds \ {t}) ELSE {{}}
SubmitAgentTypes ==
  IF scenario \in {"route", "starve"} THEN AgentTypes \cup {None} ELSE {None}
SubmitCallbacks ==
  IF scenario = "callback" THEN BOOLEAN ELSE {FALSE}
SubtaskPriorities ==
  IF scenario = "route" THEN Priorities \cup {NoPriority} ELSE {NoPriority}
CallbackOutcomes ==
  IF scenario = "callback" THEN BOOLEAN ELSE {TRUE}
\* how far the clock runs: the retry scenario needs 2 + 4 time units for the
\* backoffs of two retries
Horizon == IF scenario = "retry" THEN 3 * MaxTime ELSE MaxTime
\* the fresh id of the next task: ids are taken in increasing order
NextId == Cardinality(DOMAIN tasks) + 1

\* ------------------------------------------------- registry and submission
\* register_agent, for an agent handle that is not registered
RegisterAgent(a) ==
  /\ ~spinning
  /\ a \notin agents
  /\ agents' = agents \cup {a}
  /\ available_agents' =
       [available_agents EXCEPT ![AgentTypeOf(a)] = Append(@, a)]
  /\ UNCHANGED <<tasks, task_queue, active_tasks, task_callbacks, running,
                 spinning, proc, now, attempts, cb_calls, scenario>>

\* unregister_agent's answer: False for an unknown id; list.remove raises
\* ValueError for an agent that is not in its pool (coded here as "raises")
UnregisterResult(a) ==
  IF a \notin agents THEN "false"
  ELSE IF a \notin Range(available_agents[AgentTypeOf(a)]) THEN "raises"
  ELSE "true"

\* unregister_agent
UnregisterAgent(a) ==
  /\ ~spinning
  /\ IF UnregisterResult(a) = "true"
     THEN /\ available_agents' =
               [available_agents EXCEPT ![AgentTypeOf(a)] = RemoveFirst(@, a)]
          /\ agents' = agents \ {a}
     ELSE UNCHANGED <<agents, available_agents>>
  /\ UNCHANGED <<tasks, task_queue, active_tasks, task_callbacks, running,
                 spinning, proc, now, attempts, cb_calls, scenario>>

\* submit_task, for a task with a fresh id; the first submission starts the
\* assignment loop
SubmitTask(t, prio, mr, deps, req, cb) ==
  /\ ~spinning
  /\ t \in ScenarioTasks \ DOMAIN tasks
  /\ tasks' = tasks @@ (t :> NewTask(prio, mr, deps, req))
  /\ task_callbacks' = IF cb THEN task_callbacks \cup {t} ELSE task_callbacks
  /\ task_queue' = HeapPush(task_queue, <<prio, now, t>>)
  /\ running' = TRUE
  /\ UNCHANGED <<active_tasks, agents, available_agents, spinning, proc, now,
                 attempts, cb_calls, scenario>>

\* create_subtask of parent p: the subtask gets the fresh id t
CreateSubtask(p, t, prio, req, cb) ==
  /\ ~spinning
  /\ p \in DOMAIN tasks
  /\ t \in ScenarioTasks \ DOMAIN tasks
  /\ LET sub == NewTask(SubtaskPriority(prio, tasks[p]), DefaultMaxRetries,
                        SubtaskDependencies(p), req)
     IN  /\ tasks' = [tasks EXCEPT ![p].subtask_ids = Append(@, t)] @@ (t :> sub)
         /\ task_queue' = HeapPush(task_queue, <<sub.priority, now, t>>)
  /\ task_callbacks' = IF cb THEN task_callbacks \cup {t} ELSE task_callbacks
  /\ running' = TRUE
  /\ UNCHANGED <<active_tasks, agents, available_agents, spinning, proc, now,
                 attempts, cb_calls, scenario>>

\* ------------------------------------------------------------ cancellation
\* cancel_task's answer
CancelResult(t) ==
  t \in DOMAIN tasks /\ tasks[t].status \notin {COMPLETED, CANCELLED}

\* the agent cancel_task gives back for an active task
CancelReturnsAgent(st, t) ==
  t \in DOMAIN st.active /\ st.active[t] \in agents

\* (a variant in which a future that has not started still runs)
CancelFuture_StillRuns(p) ==
  IF p.pc = "running" THEN [p EXCEPT !.pc = "cancelling"] ELSE p

\* what future.cancel() does to the task's future: one that has not started
\* never runs, one that waits for its agent gets CancelledError, one that is
\* done is left alone
CancelFuture(p) ==
  CASE p.pc = "scheduled" -> NoProc
    [] p.pc = "running" -> [p EXCEPT !.pc = "cancelling"]
    [] OTHER -> p

RECURSIVE CancelRec(_, _), CancelSubtasks(_, _, _)
\* cancel_task on the state st = [tasks, active, pools, proc]
CancelRec(st, t) ==
  IF t \notin DOMAIN st.tasks \/ st.tasks[t].status \in {COMPLETED, CANCELLED}
  THEN st
  ELSE LET act == t \in DOMAIN st.active
           st1 == [tasks |-> [st.tasks EXCEPT ![t].status = CANCELLED],
                   active |-> [x \in DOMAIN st.active \ {t} |-> st.active[x]],
                   pools |-> IF CancelReturnsAgent(st, t)
                             THEN [st.pools EXCEPT
                                     ![AgentTypeOf(st.active[t])] =
                                        Append(@, st.active[t])]
                             ELSE st.pools,
                   proc |-> IF act
                            THEN [st.proc EXCEPT ![t] = CancelFuture(@)]
                            ELSE st.proc]
       IN  CancelSubtasks(st1, st.tasks[t].subtask_ids, 1)

\* the loop of cancel_task over task.subtask_ids
CancelSubtasks(st, subs, i) ==
  IF i > Len(subs) THEN st
  ELSE CancelSubtasks(CancelRec(st, subs[i]), subs, i + 1)

\* cancel_task
CancelTask(t) ==
  /\ ~spinning
  /\ LET st == CancelRec([tasks |-> tasks, active |-> active_tasks,
                          pools |-> available_agents, proc |-> proc], t)
     IN  /\ tasks' = st.tasks
         /\ active_tasks' = st.active
         /\ available_agents' = st.pools
         /\ proc' = st.proc
  /\ UNCHANGED <<task_queue, agents, task_callbacks, running, spinning, now,
                 attempts, cb_calls, scenario>>

\* ----------------------------------------------------- the assignment loop
\* One action is one iteration of _scheduler_loop's while loop.  An
\* iteration that ends in `await asyncio.sleep` gives the event loop away
\* (spinning' = FALSE); one that ends in `continue` goes straight into the
\* next iteration and nothing else runs in between (spinning' = TRUE).
LoopReady == running /\ task_queue # {} /\ AllAvailable > 0
HeadId == HeapMin(task_queue)[3]
HeadTask == tasks[HeadId]

\* the queue is empty, or no agent at all is available: sleep
LoopIdle ==
  /\ running
  /\ task_queue = {} \/ AllAvailable = 0
  /\ spinning' = FALSE
  /\ UNCHANGED <<tasks, task_queue, active_tasks, agents, available_agents,
                 task_callbacks, running, proc, now, attempts, cb_calls, scenario>>

\* the head is not PENDING any more: pop it, continue
LoopDiscard ==
  /\ LoopReady
  /\ HeadId \notin DOMAIN tasks \/ HeadTask.status # PENDING
  /\ task_queue' = HeapPop(task_queue)
  /\ spinning' = TRUE
  /\ UNCHANGED <<tasks, active_tasks, agents, available_agents, task_callbacks,
                 running, proc, now, attempts, cb_calls, scenario>>

\* the head is scheduled for the future: sleep
LoopDefer ==
  /\ LoopReady
  /\ HeadId \in DOMAIN tasks /\ HeadTask.status = PENDING
  /\ ScheduledInFuture(HeadTask)
  /\ spinning' = FALSE
  /\ UNCHANGED <<tasks, task_queue, active_tasks, agents, available_agents,
                 task_callbacks, running, proc, now, attempts, cb_calls, scenario>>

\* the head's dependencies are not met: pop it, push it again with the
\* timestamp time.time() + 5, continue
LoopRequeue ==
  /\ LoopReady
  /\ HeadId \in DOMAIN tasks /\ HeadTask.status = PENDING
  /\ ~ScheduledInFuture(HeadTask)
  /\ ~DependenciesMet(HeadTask)
  /\ task_queue' = HeapPush(HeapPop(task_queue),
                            <<HeapMin(task_queue)[1], now + DepRecheckDelay, HeadId>>)
  /\ spinning' = TRUE
  /\ UNCHANGED <<tasks, active_tasks, agents, available_agents, task_callbacks,
                 running, proc, now, attempts, cb_calls, scenario>>

\* no suitable agent for the head: sleep
LoopNoAgent ==
  /\ LoopReady
  /\ HeadId \in DOMAIN tasks /\ HeadTask.status = PENDING
  /\ ~ScheduledInFuture(HeadTask)
  /\ DependenciesMet(HeadTask)
  /\ FindAvailableAgent(HeadTask) = NoAgent
  /\ spinning' = FALSE
  /\ UNCHANGED <<tasks, task_queue, active_tasks, agents, available_agents,
                 task_callbacks, running, proc, now, attempts, cb_calls, scenario>>

\* the head is assigned: pop it, mark it ASSIGNED, create its future, continue
LoopAssign ==
  /\ LoopReady
  /\ HeadId \in DOMAIN tasks /\ HeadTask.status = PENDING
  /\ ~ScheduledInFuture(HeadTask)
  /\ DependenciesMet(HeadTask)
  /\ FindAvailableAgent(HeadTask) # NoAgent
  /\ available_agents' = PoolsAfterFind(HeadTask)
  /\ task_queue' = HeapPop(task_queue)
  /\ tasks' = [tasks EXCEPT ![HeadId].status = ASSIGNED]
  /\ proc' = [proc EXCEPT ![HeadId] =
                [pc |-> "scheduled", agent |-> FindAvailableAgent(HeadTask)]]
  /\ active_tasks' =
       [x \in DOMAIN active_tasks \cup {HeadId} |->
          IF x = HeadId THEN FindAvailableAgent(HeadTask) ELSE active_tasks[x]]
  /\ spinning' = TRUE
  /\ UNCHANGED <<agents, task_callbacks, running, now, attempts, cb_calls, scenario>>

\* ------------------------------------------------------------ _process_task
\* the first stretch, up to `await agent.run(messages)`; self.agents[agent_id]
\* raises KeyError for an agent that is not registered, which ends the
\* coroutine before its try block
ProcessStart(t) ==
  /\ ~spinning
  /\ proc[t].pc = "scheduled"
  /\ IF proc[t].agent \in agents
     THEN /\ tasks' = [tasks EXCEPT ![t].status = IN_PROGRESS]
          /\ proc' = [proc EXCEPT ![t].pc = "running"]
          /\ attempts' = [attempts EXCEPT ![t] = @ + 1]
     ELSE /\ proc' = [proc EXCEPT ![t] = NoProc]
          /\ UNCHANGED <<tasks, attempts>>
  /\ UNCHANGED <<task_queue, active_tasks, agents, available_agents,
                 task_callbacks, running, spinning, now, cb_calls, scenario>>

\* the test of the finally block before it calls the callback
CallbackDue(t, status) == t \in task_callbacks /\ status \in Terminal

\* the finally block: the agent goes back to its pool, the task leaves
\* active_tasks, the callback is called for a terminal status (and stays
\* registered when it raises: cb_ok = FALSE)
Finally(t, status, cb_ok) ==
  /\ available_agents' =
       [available_agents EXCEPT ![AgentTypeOf(proc[t].agent)] =
          Append(@, proc[t].agent)]
  /\ active_tasks' = [x \in DOMAIN active_tasks \ {t} |-> active_tasks[x]]
  /\ proc' = [proc EXCEPT ![t] = NoProc]
  /\ IF CallbackDue(t, status)
     THEN /\ cb_calls' = [cb_calls EXCEPT ![t] = @ + 1]
          /\ task_callbacks' = IF cb_ok THEN task_callbacks \ {t} ELSE task_callbacks
     ELSE /\ cb_ok
          /\ UNCHANGED <<cb_calls, task_callbacks>>

\* the task after the exception handler: PENDING with a later scheduled_for
\* when a retry is left, FAILED otherwise
TaskAfterFailure(task) ==
  IF CanRetry(task)
  THEN [task EXCEPT !.status = PENDING,
                    !.retry_count = @ + 1,
                    !.scheduled_for = now + RetryDelay(task.retry_count + 1)]
  ELSE [task EXCEPT !.status = FAILED]

\* agent.run returned: COMPLETED
ProcessComplete(t, cb_ok) ==
  /\ ~spinning
  /\ proc[t].pc = "running"
  /\ tasks' = [tasks EXCEPT ![t].status = COMPLETED]
  /\ Finally(t, COMPLETED, cb_ok)
  /\ UNCHANGED <<task_queue, agents, running, spinning, now, attempts, scenario>>

\* (a variant in which the exception handler gives the event loop away after
\* it has put the task back in the queue, before the finally block)
ProcessFail_RequeuesBeforeEnd(t, cb_ok) ==
  /\ ~spinning
  /\ proc[t].pc = "running"
  /\ cb_ok
  /\ CanRetry(tasks[t])
  /\ now + RetryDelay(tasks[t].retry_count + 1) <= Horizon
  /\ tasks' = [tasks EXCEPT ![t] = TaskAfterFailure(@)]
  /\ task_queue' =
       HeapPush(task_queue,
                <<tasks[t].priority, TaskAfterFailure(tasks[t]).scheduled_for, t>>)
  /\ UNCHANGED <<active_tasks, agents, available_agents, task_callbacks,
                 running, spinning, proc, now, attempts, cb_calls, scenario>>

\* agent.run raised
ProcessFail(t, cb_ok) ==
  /\ ~spinning
  /\ proc[t].pc = "running"
  /\ CanRetry(tasks[t]) => now + RetryDelay(tasks[t].retry_count + 1) <= Horizon
  /\ tasks' = [tasks EXCEPT ![t] = TaskAfterFailure(@)]
  /\ task_queue' =
       IF CanRetry(tasks[t])
       THEN HeapPush(task_queue,
                     <<tasks[t].priority, TaskAfterFailure(tasks[t]).scheduled_for, t>>)
       ELSE task_queue
  /\ Finally(t, TaskAfterFailure(tasks[t]).status, cb_ok)
  /\ UNCHANGED <<agents, running, spinning, now, attempts, scenario>>

\* the future was cancelled while it waited for agent.run: CancelledError
ProcessCancelled(t, cb_ok) ==
  /\ ~spinning
  /\ proc[t].pc = "cancelling"
  /\ tasks' = [tasks EXCEPT ![t].status = CANCELLED]
  /\ Finally(t, CANCELLED, cb_ok)
  /\ UNCHANGED <<task_queue, agents, running, spinning, now, attempts, scenario>>

\* ------------------------------------------------------------------- clock
Tick ==
  /\ now < Horizon
  /\ now' = now + 1
  /\ UNCHANGED <<tasks, task_queue, active_tasks, agents, available_agents,
                 task_callbacks, running, spinning, proc, attempts, cb_calls, scenario>>

\* ----------------------------------------------------------- specification
\* the variables of the other components, which the scheduler leaves alone
other_vars == <<event_vars, comm_vars, exec_vars, batch_vars, decision_vars>>

Next ==
  \/ (\E a \in AgentIds : RegisterAgent(a))
       /\ UNCHANGED other_vars
  \/ (\E a \in AgentIds : UnregisterAgent(a))
       /\ UNCHANGED other_vars
  \/ (\E prio \in SubmitPriorities, mr \in SubmitMaxRetries,
        req \in SubmitAgentTypes, cb \in SubmitCallbacks :
       \E deps \in SubmitDependencies(NextId) :
         SubmitTask(NextId, prio, mr, deps, req, cb))
       /\ UNCHANGED other_vars
  \/ (\E p \in TaskIds, prio \in SubtaskPriorities,
        req \in SubmitAgentTypes, cb \in SubmitCallbacks :
       CreateSubtask(p, NextId, prio, req, cb))
       /\ UNCHANGED other_vars
  \/ (\E t \in TaskIds : CancelTask(t))
       /\ UNCHANGED other_vars
  \/ LoopIdle /\ UNCHANGED other_vars
  \/ LoopDiscard /\ UNCHANGED other_vars
  \/ LoopDefer /\ UNCHANGED other_vars
  \/ LoopRequeue /\ UNCHANGED other_vars
  \/ LoopNoAgent /\ UNCHANGED other_vars
  \/ LoopAssign /\ UNCHANGED other_vars
  \/ (\E t \in TaskIds : ProcessStart(t))
       /\ UNCHANGED other_vars
  \/ (\E t \in TaskIds, cb_ok \in CallbackOutcomes : ProcessComplete(t, cb_ok))
       /\ UNCHANGED other_vars
  \/ (\E t \in TaskIds, cb_ok \in CallbackOutcomes : ProcessFail(t, cb_ok))
       /\ UNCHANGED other_vars
  \/ (\E t \in TaskIds, cb_ok \in CallbackOutcomes : ProcessCancelled(t, cb_ok))
       /\ UNCHANGED other_vars
  \/ Tick /\ UNCHANGED other_vars

Spec == Init /\ [][Next]_vars

\* --------------------------------------------------------------- progress
\* The runs in which nothing is cancelled and no agent is unregistered, with
\* the scheduling the event loop gives: a coroutine that can run does run
\* (the assignment loop, a task's future that was created), an agent run
\* returns or raises, and the clock advances.
LiveInit ==
  InitState /\ scenario = "live" /\ EventInitState /\ CommInitState /\ ExecInitState /\ DecisionInitState

\* (without cancellation no stale entry is in the queue, and without a
\* required agent type every available agent suits the head)
LoopStep ==
  LoopIdle \/ LoopDefer \/ LoopRequeue \/ LoopAssign

AgentRunEnds(t) == ProcessComplete(t, TRUE) \/ ProcessFail(t, TRUE)

LiveNext ==
  \/ (\E a \in AgentIds : RegisterAgent(a))
       /\ UNCHANGED other_vars
  \/ (\E prio \in SubmitPriorities, mr \in SubmitMaxRetries,
        req \in SubmitAgentTypes, cb \in SubmitCallbacks :
       \E deps \in SubmitDependencies(NextId) :
         SubmitTask(NextId, prio, mr, deps, req, cb))
       /\ UNCHANGED other_vars
  \/ LoopStep /\ UNCHANGED other_vars
  \/ (\E t \in TaskIds : ProcessStart(t))
       /\ UNCHANGED other_vars
  \/ (\E t \in TaskIds : AgentRunEnds(t))
       /\ UNCHANGED other_vars
  \/ Tick /\ UNCHANGED other_vars

LiveSpec ==
  /\ LiveInit
  /\ [][LiveNext]_vars
  /\ WF_vars(LoopStep /\ UNCHANGED other_vars)
  /\ \A t \in TaskIds : WF_vars(ProcessStart(t) /\ UNCHANGED other_vars)
  /\ \A t \in TaskIds : WF_vars(AgentRunEnds(t) /\ UNCHANGED other_vars)
  /\ WF_vars(Tick /\ UNCHANGED other_vars)

\* The runs of the assignment loop over tasks with a required agent type,
\* with the same scheduling: nothing is cancelled, no agent is unregistered,
\* no task has dependencies, retries or a scheduled time, so the only head
\* the loop cannot assign is one without a suitable available agent.
StarveInit ==
  InitState /\ scenario = "starve" /\ EventInitState /\ CommInitState /\ ExecInitState /\ DecisionInitState

StarveLoopStep ==
  LoopIdle \/ LoopNoAgent \/ LoopAssign

StarveNext ==
  \/ (\E a \in AgentIds : RegisterAgent(a))
       /\ UNCHANGED other_vars
  \/ (\E prio \in SubmitPriorities, mr \in SubmitMaxRetries,
        req \in SubmitAgentTypes, cb \in SubmitCallbacks :
       \E deps \in SubmitDependencies(NextId) :
         SubmitTask(NextId, prio, mr, deps, req, cb))
       /\ UNCHANGED other_vars
  \/ StarveLoopStep /\ UNCHANGED other_vars
  \/ (\E t \in TaskIds : ProcessStart(t))
       /\ UNCHANGED other_vars
  \/ (\E t \in TaskIds : AgentRunEnds(t))
       /\ UNCHANGED other_vars
  \/ Tick /\ UNCHANGED other_vars

StarveSpec ==
  /\ StarveInit
  /\ [][StarveNext]_vars
  /\ WF_vars(StarveLoopStep /\ UNCHANGED other_vars)
  /\ \A t \in TaskIds : WF_vars(ProcessStart(t) /\ UNCHANGED other_vars)
  /\ \A t \in TaskIds : WF_vars(AgentRunEnds(t) /\ UNCHANGED other_vars)
  /\ WF_vars(Tick /\ UNCHANGED other_vars)

\* ------------------------------------------------------------ start, stop
\* start: the processors are created
StartEvents ==
  /\ draining = 0
  /\ ~bus_running
  /\ bus_running' = TRUE
  /\ event_processors' = [w \in ProcessorIds |-> Processor("idle")]
  /\ UNCHANGED <<published, event_queue, subscribers, global_subscribers,
                 subscriber_filters, registered, recent, draining, event_history, events_processed,
                 waiters, delivered, raised, filtered_subscribers, processed>>

\* stop: the processors are cancelled, one that waits for a coroutine
\* callback drops the rest of its event
StopEvents ==
  /\ draining = 0
  /\ bus_running
  /\ bus_running' = FALSE
  /\ event_processors' = [w \in ProcessorIds |-> Processor("none")]
  /\ UNCHANGED <<published, event_queue, subscribers, global_subscribers,
                 subscriber_filters, registered, recent, draining, event_history, events_processed,
                 waiters, delivered, raised, filtered_subscribers, processed>>

\* ---------------------------------------------------------------- publish
\* the number of events of a run
PublishLimit == IF scenario = "bus_history" THEN MaxEvents + 1 ELSE MaxEvents

\* publish_event: the queue is unbounded, put does not wait
PublishEvent(ty, data, ts) ==
  /\ draining = 0
  /\ Len(published) < PublishLimit
  /\ published' = Append(published, [type |-> ty, data |-> data, timestamp |-> ts])
  /\ event_queue' = Append(event_queue, Len(published) + 1)
  /\ UNCHANGED <<subscribers, global_subscribers, subscriber_filters, registered, recent,
                 bus_running, event_processors, draining, event_history,
                 events_processed, waiters, delivered, raised,
                 filtered_subscribers, processed>>

\* --------------------------------------------------- subscribe, unsubscribe
\* subscribe(callback, event_types, filter_func); event_types None is global;
\* a filter that is given replaces the callback's filter, None leaves the
\* filter table alone
Subscribe(cb, types, f) ==
  /\ draining = 0
  /\ IF types = NoTypes
     THEN /\ global_subscribers' = global_subscribers \cup {cb}
          /\ UNCHANGED subscribers
     ELSE /\ subscribers' = [ty \in EventTypes |->
                               IF ty \in types THEN subscribers[ty] \cup {cb}
                               ELSE subscribers[ty]]
          /\ UNCHANGED global_subscribers
  /\ subscriber_filters' =
       IF f # None
       THEN [x \in DOMAIN subscriber_filters \cup {cb} |->
               IF x = cb THEN f ELSE subscriber_filters[x]]
       ELSE subscriber_filters
  /\ registered' =
       IF f # None
       THEN [x \in DOMAIN registered \cup {cb} |-> IF x = cb THEN f ELSE registered[x]]
       ELSE registered
  /\ UNCHANGED <<published, event_queue, bus_running, event_processors,
                 draining, event_history, events_processed, waiters, delivered,
                 raised, filtered_subscribers, processed, recent>>

\* the subscriber sets after unsubscribe(callback, event_types)
SubscribersAfterUnsubscribe(subs, cb, types) ==
  [ty \in EventTypes |->
     IF types = NoTypes \/ ty \in types THEN subs[ty] \ {cb} ELSE subs[ty]]

\* the filter table after unsubscribe: the callback's filter is deleted,
\* whichever types it was unsubscribed from
FiltersAfterUnsubscribe(cb) ==
  [x \in DOMAIN subscriber_filters \ {cb} |-> subscriber_filters[x]]

\* unsubscribe(callback, event_types)
Unsubscribe(cb, types) ==
  /\ draining = 0
  /\ subscribers' = SubscribersAfterUnsubscribe(subscribers, cb, types)
  /\ global_subscribers' =
       IF types = NoTypes THEN global_subscribers \ {cb} ELSE global_subscribers
  /\ subscriber_filters' = FiltersAfterUnsubscribe(cb)
  /\ registered' =
       [x \in {y \in DOMAIN registered :
                 y = cb => \/ cb \in global_subscribers'
                           \/ \E ty \in EventTypes : cb \in subscribers'[ty]} |->
          registered[x]]
  /\ UNCHANGED <<published, event_queue, bus_running, event_processors,
                 draining, event_history, events_processed, waiters, delivered,
                 raised, filtered_subscribers, processed, recent>>

\* ---------------------------------------------------------- _process_event
\* subscribers_to_notify
SubscribersToNotify(ev) == subscribers[ev.type] \cup global_subscribers

\* a filter raises while the filters are applied: _process_event ends there
FilterRaises(ev) ==
  \E cb \in SubscribersToNotify(ev) :
    cb \in DOMAIN subscriber_filters /\ FilterResult(subscriber_filters[cb], ev) = "raise"

\* filtered_subscribers, as a set
FilteredSubscribers(ev) ==
  {cb \in SubscribersToNotify(ev) :
     cb \in DOMAIN subscriber_filters => FilterResult(subscriber_filters[cb], ev) = "accept"}

\* event_callback of wait_for_event, called with event e: the waiter after
\* the call
WaiterAfterCall(wt, e) ==
  IF FilterResult(wt.filter, published[e]) = "accept" /\ wt.pc = "waiting"
  THEN [wt EXCEPT !.pc = "resolved", !.result = e]
  ELSE wt

\* event_callback raises: its filter raises, or future.set_result finds the
\* future done or cancelled (InvalidStateError)
WaiterCallRaises(wt, e) ==
  \/ FilterResult(wt.filter, published[e]) = "raise"
  \/ FilterResult(wt.filter, published[e]) = "accept" /\ wt.pc # "waiting"

\* (a variant without the try block around the call of a subscriber)
AfterCallback_Abort(rest, exc) == IF exc THEN <<>> ELSE rest

\* the subscribers still to notify after one was called: the exception of a
\* subscriber is caught and logged inside the loop
AfterCallback(rest, exc) == rest

RECURSIVE NotifyAll(_, _, _, _)
\* the loop over filtered_subscribers from the subscribers in seq on, for
\* event e, on the state st = [waiters, delivered, raised, awaiting, rest];
\* it runs until a coroutine callback suspends or the list ends.  The plain
\* callbacks in `raising` raise.
NotifyAll(st, e, seq, raising) ==
  IF seq = <<>> THEN [st EXCEPT !.awaiting = 0, !.rest = <<>>]
  ELSE LET cb == Head(seq)
           st1 == [st EXCEPT !.delivered = @ \cup {<<cb, e>>}]
       IN  IF IsCoroutine(cb)
           THEN [st1 EXCEPT !.awaiting = cb, !.rest = Tail(seq)]
           ELSE IF cb \in SubscriberIds
           THEN NotifyAll([st1 EXCEPT !.raised =
                                 IF cb \in raising THEN @ \cup {<<cb, e>>} ELSE @],
                          e, AfterCallback(Tail(seq), cb \in raising), raising)
           ELSE LET k == cb - MaxSubscribers
                    exc == WaiterCallRaises(st.waiters[k], e)
                IN  NotifyAll([st1 EXCEPT
                                 !.waiters[k] = WaiterAfterCall(@, e),
                                 !.raised = IF exc THEN @ \cup {<<cb, e>>} ELSE @],
                              e, AfterCallback(Tail(seq), exc), raising)

\* what a processor does with event e after the loop of _process_event has
\* come to st: suspended in a coroutine callback, or the event is done
\* (metrics, history with the oldest entry evicted) and the processor takes the next event at once if there
\* is one, and waits in queue.get if not
AfterNotify(w, e, st, queue) ==
  /\ waiters' = st.waiters
  /\ delivered' = st.delivered
  /\ raised' = st.raised
  /\ IF st.awaiting # 0
     THEN /\ event_processors' =
               [event_processors EXCEPT ![w] =
                  [pc |-> "awaiting", event |-> e, awaiting |-> st.awaiting,
                   rest |-> st.rest]]
          /\ draining' = 0
          /\ UNCHANGED <<event_history, events_processed, processed>>
     ELSE /\ event_processors' = [event_processors EXCEPT ![w] = Processor("idle")]
          /\ draining' = IF queue # <<>> /\ bus_running THEN w ELSE 0
          /\ event_history' =
               IF Len(event_history) + 1 > max_history_size
               THEN Tail(Append(event_history, e))
               ELSE Append(event_history, e)
          /\ events_processed' = events_processed + 1
          /\ processed' = processed \cup {e}

\* _event_processing_loop, from queue.get to the first await that suspends
ProcessorGet(w) ==
  /\ draining \in {0, w}
  /\ bus_running
  /\ event_processors[w].pc = "idle"
  /\ event_queue # <<>>
  /\ LET e == Head(event_queue)
         ev == published[e]
     IN  /\ event_queue' = Tail(event_queue)
         /\ IF FilterRaises(ev)
            THEN /\ draining' = IF Tail(event_queue) # <<>> THEN w ELSE 0
                 /\ UNCHANGED <<event_processors, event_history, events_processed,
                                waiters, delivered, raised, filtered_subscribers,
                                processed>>
            ELSE /\ filtered_subscribers' =
                      [x \in DOMAIN filtered_subscribers \cup {e} |->
                         IF x = e THEN FilteredSubscribers(ev)
                         ELSE filtered_subscribers[x]]
                 /\ \E order \in Orders(FilteredSubscribers(ev)) :
                    \E raising \in SUBSET {cb \in FilteredSubscribers(ev) :
                                             cb \in SubscriberIds /\ ~IsCoroutine(cb)} :
                      AfterNotify(w, e,
                        NotifyAll([waiters |-> waiters, delivered |-> delivered,
                                   raised |-> raised, awaiting |-> 0, rest |-> <<>>],
                                  e, order, raising),
                        Tail(event_queue))
  /\ UNCHANGED <<published, subscribers, global_subscribers, subscriber_filters, registered, recent,
                 bus_running>>

\* the coroutine callback a processor waits for returns (exc = FALSE) or
\* raises, and the loop of _process_event goes on
ProcessorResume(w, exc) ==
  /\ draining = 0
  /\ event_processors[w].pc = "awaiting"
  /\ LET e == event_processors[w].event
         cb == event_processors[w].awaiting
         rest == AfterCallback(event_processors[w].rest, exc)
     IN  \E raising \in SUBSET {x \in Range(rest) :
                                  x \in SubscriberIds /\ ~IsCoroutine(x)} :
           AfterNotify(w, e,
             NotifyAll([waiters |-> waiters, delivered |-> delivered,
                        raised |-> IF exc THEN raised \cup {<<cb, e>>} ELSE raised,
                        awaiting |-> 0, rest |-> <<>>],
                       e, rest, raising),
             event_queue)
  /\ UNCHANGED <<published, event_queue, subscribers, global_subscribers,
                 subscriber_filters, registered, recent, bus_running, filtered_subscribers>>

\* ------------------------------------------------------- get_recent_events
\* (a variant that leaves the events in the order of the history)
SortNewestFirst_Unsorted(events) == events

\* events.sort(key=timestamp, reverse=True): by falling timestamp, events of
\* one timestamp in the order they had (the sort is stable)
SortNewestFirst(events) ==
  LET RECURSIVE Sort(_)
      Sort(s) ==
        IF s = <<>> THEN <<>>
        ELSE LET i == CHOOSE k \in DOMAIN s :
                        \A j \in DOMAIN s :
                          /\ published[s[j]].timestamp <= published[s[k]].timestamp
                          /\ published[s[j]].timestamp = published[s[k]].timestamp
                               => k <= j
             IN  <<s[i]>> \o Sort(SubSeq(s, 1, i - 1) \o SubSeq(s, i + 1, Len(s)))
  IN  Sort(events)

\* what get_recent_events(event_types, limit, filter_func) returns, for a
\* limit of 0 or more; `if event_types:` is false for None and for an empty
\* list
RecentEvents(types, limit, f) ==
  LET by_type == IF types # NoTypes /\ types # {}
                 THEN SelectSeq(event_history, LAMBDA e : published[e].type \in types)
                 ELSE event_history
      by_filter == IF f # None
                   THEN SelectSeq(by_type,
                                  LAMBDA e : FilterResult(f, published[e]) = "accept")
                   ELSE by_type
      sorted == SortNewestFirst(by_filter)
  IN  SubSeq(sorted, 1, IF limit < Len(sorted) THEN limit ELSE Len(sorted))

\* get_recent_events(event_types, limit, filter_func)
GetRecentEvents(types, limit, f) ==
  /\ draining = 0
  /\ recent' = [called |-> TRUE, types |-> types, limit |-> limit, filter |-> f,
                result |-> RecentEvents(types, limit, f)]
  /\ UNCHANGED <<published, event_queue, subscribers, global_subscribers,
                 subscriber_filters, registered, bus_running, event_processors,
                 draining, event_history, events_processed, waiters, delivered,
                 raised, filtered_subscribers, processed>>

\* ----------------------------------------------------------- wait_for_event
\* `if timeout:` is false for None and for 0
TimeoutGiven(timeout) == timeout # NoTime /\ timeout # 0

\* wait_for_event up to its await: the future is created and event_callback
\* is subscribed to the event type
WaitForEvent(k, ty, f, timeout) ==
  /\ draining = 0
  /\ waiters[k].pc = "none"
  /\ TimeoutGiven(timeout) => now + timeout <= Horizon
  /\ waiters' = [waiters EXCEPT ![k] =
                   [pc |-> "waiting", type |-> ty, filter |-> f,
                    timeout |-> timeout,
                    deadline |-> IF TimeoutGiven(timeout) THEN now + timeout
                                 ELSE NoTime,
                    result |-> 0]]
  /\ subscribers' = [subscribers EXCEPT ![ty] = @ \cup {WaiterCallback(k)}]
  /\ UNCHANGED <<published, event_queue, global_subscribers, subscriber_filters, registered, recent,
                 bus_running, event_processors, draining, event_history,
                 events_processed, delivered, raised, filtered_subscribers,
                 processed>>

\* asyncio.wait_for's timeout passes before the future has a result: the
\* future is cancelled
WaitTimeout(k) ==
  /\ draining = 0
  /\ waiters[k].pc = "waiting"
  /\ waiters[k].deadline # NoTime /\ now >= waiters[k].deadline
  /\ waiters' = [waiters EXCEPT ![k].pc = "expired"]
  /\ UNCHANGED <<published, event_queue, subscribers, global_subscribers,
                 subscriber_filters, registered, recent, bus_running, event_processors, draining,
                 event_history, events_processed, delivered, raised,
                 filtered_subscribers, processed>>

\* wait_for_event resumes with the event or with TimeoutError, and its
\* finally block unsubscribes event_callback from the event type
WaitReturn(k) ==
  /\ draining = 0
  /\ waiters[k].pc \in {"resolved", "expired"}
  /\ waiters' = [waiters EXCEPT ![k].pc = "returned"]
  /\ subscribers' =
       SubscribersAfterUnsubscribe(subscribers, WaiterCallback(k), {waiters[k].type})
  /\ subscriber_filters' = FiltersAfterUnsubscribe(WaiterCallback(k))
  /\ UNCHANGED <<registered, recent, published, event_queue, global_subscribers, bus_running,
                 event_processors, draining, event_history, events_processed,
                 delivered, raised, filtered_subscribers, processed>>

\* ----------------------------------------------------- the event bus alone
\* The inputs of the event bus operations, by scenario: "bus_types" has
\* subscriptions to every choice of types and no filter, "bus_filters" has
\* filtered subscriptions to one type or to all events, "bus_wait" has
\* wait_for_event calls beside global subscribers; of the runs with progress,
\* "bus_live" has filtered subscriptions to one event type and "wait_live"
\* has wait_for_event calls beside a subscriber of that type; "bus_history"
\* has more events than the history holds, with timestamps in any order, and
\* get_recent_events calls.
EventInputs ==
  [publish_types |->
     IF scenario \in {"bus_types", "bus_wait", "bus_history"} THEN EventTypes
     ELSE {TASK_CREATED},
   publish_data |-> IF scenario = "bus_types" THEN {1} ELSE EventData,
   publish_times |-> IF scenario = "bus_history" THEN {1, 2} ELSE {0},
   recent_types |-> {NoTypes, {}, {TASK_CREATED}},
   recent_limits |-> 0..(MaxHistory + 1),
   recent_filters |-> {None, AcceptsOne},
   subscribe_callbacks |->
     IF scenario \in {"bus_wait", "wait_live"}
     THEN {cb \in SubscriberIds : IsCoroutine(cb)}
     ELSE SubscriberIds,
   subscribe_types |->
     CASE scenario = "bus_types" -> {NoTypes} \cup (SUBSET EventTypes \ {{}})
       [] scenario = "bus_filters" -> {NoTypes, {TASK_CREATED}}
       [] scenario = "bus_wait" -> {NoTypes}
       [] OTHER -> {{TASK_CREATED}},
   subscribe_filters |->
     CASE scenario = "bus_filters" -> {None, AcceptsOne, Fragile}
       [] scenario = "bus_live" -> {None, Fragile}
       [] OTHER -> {None},
   wait_calls |-> IF scenario \in {"bus_wait", "wait_live"} THEN WaiterIds ELSE {},
   wait_types |-> {TASK_CREATED},
   wait_filters |-> {None, AcceptsOne},
   wait_timeouts |-> {NoTime, 0, 1}]

EventInit ==
  /\ InitState
  /\ scenario \in {"bus_types", "bus_filters", "bus_wait"}
  /\ EventInitState
  /\ CommInitState
  /\ ExecInitState
  /\ DecisionInitState

\* the clock, while a wait_for_event call with a timeout waits
EventTick ==
  /\ \E k \in WaiterIds : waiters[k].pc = "waiting" /\ waiters[k].deadline # NoTime
  /\ Tick

EventNext ==
  \/ StartEvents /\ UNCHANGED <<scheduler_vars, comm_vars, exec_vars, batch_vars, decision_vars>>
  \/ StopEvents /\ UNCHANGED <<scheduler_vars, comm_vars, exec_vars, batch_vars, decision_vars>>
  \/ (\E ty \in EventInputs.publish_types, data \in EventInputs.publish_data,
         ts \in EventInputs.publish_times :
        PublishEvent(ty, data, ts)) /\ UNCHANGED <<scheduler_vars, comm_vars, exec_vars, batch_vars, decision_vars>>
  \/ (\E cb \in EventInputs.subscribe_callbacks,
         types \in EventInputs.subscribe_types,
         f \in EventInputs.subscribe_filters :
        Subscribe(cb, types, f)) /\ UNCHANGED <<scheduler_vars, comm_vars, exec_vars, batch_vars, decision_vars>>
  \/ (\E cb \in EventInputs.subscribe_callbacks,
         types \in EventInputs.subscribe_types :
        Unsubscribe(cb, types)) /\ UNCHANGED <<scheduler_vars, comm_vars, exec_vars, batch_vars, decision_vars>>
  \/ (\E w \in ProcessorIds : ProcessorGet(w)) /\ UNCHANGED <<scheduler_vars, comm_vars, exec_vars, batch_vars, decision_vars>>
  \/ (\E w \in ProcessorIds, exc \in BOOLEAN : ProcessorResume(w, exc))
       /\ UNCHANGED <<scheduler_vars, comm_vars, exec_vars, batch_vars, decision_vars>>
  \/ (\E k \in EventInputs.wait_calls, ty \in EventInputs.wait_types,
         f \in EventInputs.wait_filters, timeout \in EventInputs.wait_timeouts :
        WaitForEvent(k, ty, f, timeout)) /\ UNCHANGED <<scheduler_vars, comm_vars, exec_vars, batch_vars, decision_vars>>
  \/ (\E k \in WaiterIds : WaitTimeout(k)) /\ UNCHANGED <<scheduler_vars, comm_vars, exec_vars, batch_vars, decision_vars>>
  \/ (\E k \in WaiterIds : WaitReturn(k)) /\ UNCHANGED <<scheduler_vars, comm_vars, exec_vars, batch_vars, decision_vars>>
  \/ EventTick /\ UNCHANGED other_vars

EventSpec == EventInit /\ [][EventNext]_vars

\* The event bus without subscribers, its history and get_recent_events
HistoryInit ==
  /\ InitState
  /\ scenario = "bus_history"
  /\ EventInitState
  /\ CommInitState
  /\ ExecInitState
  /\ DecisionInitState

HistoryNext ==
  \/ StartEvents /\ UNCHANGED <<scheduler_vars, comm_vars, exec_vars, batch_vars, decision_vars>>
  \/ (\E ty \in EventInputs.publish_types, data \in EventInputs.publish_data,
         ts \in EventInputs.publish_times :
        PublishEvent(ty, data, ts)) /\ UNCHANGED <<scheduler_vars, comm_vars, exec_vars, batch_vars, decision_vars>>
  \/ (\E w \in ProcessorIds : ProcessorGet(w)) /\ UNCHANGED <<scheduler_vars, comm_vars, exec_vars, batch_vars, decision_vars>>
  \/ (\E types \in EventInputs.recent_types, limit \in EventInputs.recent_limits,
         f \in EventInputs.recent_filters :
        GetRecentEvents(types, limit, f)) /\ UNCHANGED <<scheduler_vars, comm_vars, exec_vars, batch_vars, decision_vars>>

HistorySpec == HistoryInit /\ [][HistoryNext]_vars

\* The runs of the event bus in which it is started and never stopped and
\* nothing is unsubscribed, with the scheduling the event loop gives: a
\* processor that can take an event does, a coroutine callback ends, a
\* timeout that is due fires, a wait_for_event call that can resume does.
EventLiveInit ==
  /\ InitState
  /\ scenario \in {"bus_live", "wait_live"}
  /\ EventInitState
  /\ CommInitState
  /\ ExecInitState
  /\ DecisionInitState

ProcessorStep(w) ==
  (ProcessorGet(w) \/ ProcessorResume(w, FALSE) \/ ProcessorResume(w, TRUE))
    /\ UNCHANGED <<scheduler_vars, comm_vars, exec_vars, batch_vars, decision_vars>>

WaitStep(k) == (WaitTimeout(k) \/ WaitReturn(k)) /\ UNCHANGED <<scheduler_vars, comm_vars, exec_vars, batch_vars, decision_vars>>

EventLiveNext ==
  \/ StartEvents /\ UNCHANGED <<scheduler_vars, comm_vars, exec_vars, batch_vars, decision_vars>>
  \/ (\E ty \in EventInputs.publish_types, data \in EventInputs.publish_data,
         ts \in EventInputs.publish_times :
        PublishEvent(ty, data, ts)) /\ UNCHANGED <<scheduler_vars, comm_vars, exec_vars, batch_vars, decision_vars>>
  \/ (\E cb \in EventInputs.subscribe_callbacks,
         types \in EventInputs.subscribe_types,
         f \in EventInputs.subscribe_filters :
        Subscribe(cb, types, f)) /\ UNCHANGED <<scheduler_vars, comm_vars, exec_vars, batch_vars, decision_vars>>
  \/ (\E w \in ProcessorIds : ProcessorStep(w))
  \/ (\E k \in EventInputs.wait_calls, ty \in EventInputs.wait_types,
         f \in EventInputs.wait_filters, timeout \in EventInputs.wait_timeouts :
        WaitForEvent(k, ty, f, timeout)) /\ UNCHANGED <<scheduler_vars, comm_vars, exec_vars, batch_vars, decision_vars>>
  \/ (\E k \in WaiterIds : WaitStep(k))
  \/ EventTick /\ UNCHANGED other_vars

EventLiveSpec ==
  /\ EventLiveInit
  /\ [][EventLiveNext]_vars
  /\ WF_vars(StartEvents /\ UNCHANGED <<scheduler_vars, comm_vars, exec_vars, batch_vars, decision_vars>>)
  /\ \A w \in ProcessorIds : WF_vars(ProcessorStep(w))
  /\ \A k \in WaiterIds : WF_vars(WaitStep(k))
  /\ WF_vars(EventTick /\ UNCHANGED other_vars)

\* message.recipients after the unknown recipients are filtered out
ValidRecipients(recipients) ==
  SelectSeq(recipients, LAMBDA r : r \in agent_directory \/ r = System)

\* the directory as a list
DirectoryList ==
  LET RECURSIVE Up(_)
      Up(n) == IF n > MaxCommAgents THEN <<>>
               ELSE (IF n \in agent_directory THEN <<n>> ELSE <<>>) \o Up(n + 1)
  IN  Up(1)

\* (a variant that sends a broadcast to its sender too)
BroadcastRecipients_All(sender) == DirectoryList

\* the recipients of a broadcast: all registered agents except the sender
BroadcastRecipients(sender) == SelectSeq(DirectoryList, LAMBDA a : a # sender)

\* (a variant that acknowledges for every recipient)
Acknowledged_Any(recipient) == TRUE

\* the recipients an acknowledgment is sent for
Acknowledged(recipient) == recipient \in agent_directory

\* (a variant that accepts a message without valid recipients)
Rejected_SenderOnly(msg) ==
  msg.sender \notin agent_directory /\ msg.sender # System

\* send_message returns None: unknown sender, or a message other than a
\* broadcast without a valid recipient
Rejected(msg) ==
  \/ msg.sender \notin agent_directory /\ msg.sender # System
  \/ msg.type # BROADCAST /\ ValidRecipients(msg.recipients) = <<>>

RECURSIVE Send(_, _), SendAcks(_, _, _, _)
\* send_message on the state st = [messages, conversations, active, log,
\* result]; the message gets the next id, and a conversation that is created
\* gets the next conversation id
Send(st, msg) ==
  IF Rejected(msg) THEN [st EXCEPT !.result = 0, !.log = Append(@, <<"send", msg>>)]
  ELSE
    LET id == Len(st.messages) + 1
        kept == IF msg.type = BROADCAST THEN msg.recipients
                ELSE ValidRecipients(msg.recipients)
        old == msg.conversation_id # 0 /\ msg.conversation_id \in DOMAIN st.conversations
        cid == IF old THEN msg.conversation_id ELSE Len(st.conversations) + 1
        stored == [msg EXCEPT !.recipients = kept, !.conversation_id = cid]
        convs == IF old
                 THEN [st.conversations EXCEPT ![cid].messages = Append(@, id)]
                 ELSE Append(st.conversations,
                             [participants |-> <<msg.sender>> \o kept,
                              messages |-> <<id>>, status |-> "active",
                              departed |-> <<>>])
        recipients == IF msg.type = BROADCAST THEN BroadcastRecipients(msg.sender)
                      ELSE kept
        calls == [i \in 1..Len(SelectSeq(recipients, LAMBDA r : r \in message_handlers)) |->
                    <<"handler",
                      SelectSeq(recipients, LAMBDA r : r \in message_handlers)[i], id>>]
        st1 == [messages |-> Append(st.messages, stored),
                conversations |-> convs,
                active |-> IF old THEN st.active ELSE st.active \cup {cid},
                log |-> (st.log \o <<<<"send", msg>>, <<"stored", msg.sender, id>>>>) \o calls,
                result |-> id]
        st2 == IF msg.requires_acknowledgment
               THEN SendAcks(st1, stored, id, SelectSeq(recipients, Acknowledged))
               ELSE st1
    IN  [st2 EXCEPT !.result = id]

\* the acknowledgments of message id, one send_message per acknowledged
\* recipient
SendAcks(st, msg, id, recipients) ==
  IF recipients = <<>> THEN st
  ELSE SendAcks(Send(st, [type |-> RESPONSE, sender |-> System,
                          recipients |-> <<msg.sender>>, in_reply_to |-> id,
                          conversation_id |-> msg.conversation_id,
                          requires_acknowledgment |-> FALSE]),
                msg, id, Tail(recipients))

\* the state Send works on, and the variables after it
CommState ==
  [messages |-> messages, conversations |-> conversations,
   active |-> active_conversations, log |-> <<>>, result |-> send_result]

Sent(st) ==
  /\ Len(st.messages) <= MaxMessages
  /\ messages' = st.messages
  /\ conversations' = st.conversations
  /\ active_conversations' = st.active
  /\ comm_log' = st.log
  /\ send_result' = st.result

\* send_message(message), called by an agent
SendMessage(msg) ==
  /\ Sent(Send(CommState, msg))
  /\ UNCHANGED <<agent_directory, message_handlers, system_tasks>>

\* the task of a system message runs: create_and_send_message
RunSystemTask ==
  /\ system_tasks # <<>>
  /\ Sent(Send(CommState, Head(system_tasks)))
  /\ system_tasks' = Tail(system_tasks)
  /\ UNCHANGED <<agent_directory, message_handlers>>

\* an AgentMessage as a caller of send_message makes it (the tasks of
\* _broadcast_system_message and _send_system_message_to_conversation too):
\* in_reply_to is not set
Message(type, sender, recipients, cid, ack) ==
  [type |-> type, sender |-> sender, recipients |-> recipients, in_reply_to |-> 0,
   conversation_id |-> cid, requires_acknowledgment |-> ack]

\* the number of system messages that may wait for their task to run
PendingLimit == IF scenario = "comm_group" THEN MaxPending + 1 ELSE MaxPending

\* register_agent: the directory entry, the handler if one is given, and the
\* broadcast that the agent has joined, sent in the agent's name
RegisterCommAgent(a, handler) ==
  /\ Len(system_tasks) < PendingLimit
  /\ agent_directory' = agent_directory \cup {a}
  /\ message_handlers' = IF handler THEN message_handlers \cup {a} ELSE message_handlers
  /\ system_tasks' = Append(system_tasks, Message(BROADCAST, a, <<>>, 0, FALSE))
  /\ comm_log' = <<>> /\ send_result' = 0
  /\ UNCHANGED <<messages, conversations, active_conversations>>

\* (a variant that counts the participants that have unregistered too)
Remaining_Anyone(c, a, dir) ==
  SelectSeq(conversations[c].participants, LAMBDA p : p # a)

\* the participants of conversation c other than agent a that are in the
\* directory dir
Remaining(c, a, dir) ==
  SelectSeq(conversations[c].participants, LAMBDA p : p # a /\ p \in dir)

\* conversation c after agent a has departed from it, with directory dir
AfterDeparture(c, a, dir) ==
  [conversations[c] EXCEPT
     !.departed = Append(@, a),
     !.status = IF Remaining(c, a, dir) = <<>> THEN "closed" ELSE @]

\* the tasks of _send_system_message_to_conversation for the conversations
\* in cs, with directory dir: none for a conversation without a registered
\* participant
RECURSIVE ConversationNotices(_, _)
ConversationNotices(cs, dir) ==
  IF cs = <<>> THEN <<>>
  ELSE LET to == SelectSeq(conversations[Head(cs)].participants, LAMBDA p : p \in dir)
       IN  (IF to = <<>> THEN <<>>
            ELSE <<Message("system", System, to, Head(cs), FALSE)>>)
             \o ConversationNotices(Tail(cs), dir)

\* the conversations agent a is a participant of, in the order of the map
ConversationsOf(a) ==
  SelectSeq([c \in 1..Len(conversations) |-> c],
            LAMBDA c : a \in Range(conversations[c].participants))

\* unregister_agent
UnregisterCommAgent(a) ==
  /\ a \in agent_directory
  /\ LET dir == agent_directory \ {a}
         tasks_ == <<Message(BROADCAST, System, <<>>, 0, FALSE)>>
                     \o ConversationNotices(ConversationsOf(a), dir)
     IN  /\ Len(system_tasks) + Len(tasks_) <= PendingLimit
         /\ \A c \in Range(ConversationsOf(a)) :
              Len(conversations[c].departed) < MaxDepartures
         /\ agent_directory' = dir
         /\ message_handlers' = message_handlers \ {a}
         /\ system_tasks' = system_tasks \o tasks_
         /\ conversations' =
              [c \in 1..Len(conversations) |->
                 IF a \in Range(conversations[c].participants)
                 THEN AfterDeparture(c, a, dir) ELSE conversations[c]]
         /\ active_conversations' =
              {c \in active_conversations :
                 a \in Range(conversations[c].participants) =>
                   Remaining(c, a, dir) # <<>>}
  /\ comm_log' = <<>> /\ send_result' = 0
  /\ UNCHANGED messages

\* leave_conversation(c, a): True for a participant of a known conversation
LeaveConversation(c, a) ==
  /\ c \in DOMAIN conversations
  /\ a \in Range(conversations[c].participants)
  /\ Len(conversations[c].departed) < MaxDepartures
  /\ Len(system_tasks) + Len(ConversationNotices(<<c>>, agent_directory)) <= PendingLimit
  /\ system_tasks' = system_tasks \o ConversationNotices(<<c>>, agent_directory)
  /\ conversations' =
       [conversations EXCEPT ![c] = AfterDeparture(c, a, agent_directory)]
  /\ active_conversations' =
       IF Remaining(c, a, agent_directory) = <<>>
       THEN active_conversations \ {c} ELSE active_conversations
  /\ comm_log' = <<>> /\ send_result' = 0
  /\ UNCHANGED <<agent_directory, message_handlers, messages>>

\* reply_to_message(original_message_id, sender, ...): None for an unknown
\* message; the reply goes to the sender of the original message, in its
\* conversation
ReplyToMessage(orig, sender) ==
  /\ orig \in DOMAIN messages
  /\ Sent(Send(CommState,
               [type |-> RESPONSE, sender |-> sender,
                recipients |-> <<messages[orig].sender>>, in_reply_to |-> orig,
                conversation_id |-> messages[orig].conversation_id,
                requires_acknowledgment |-> FALSE]))
  /\ UNCHANGED <<agent_directory, message_handlers, system_tasks>>

\* (a variant that appends the initial message whether or not it is there)
AfterInitial_Always(st, cid) ==
  IF st.result # 0
  THEN [st EXCEPT !.conversations[cid].messages = Append(@, st.result)]
  ELSE st

\* create_group_conversation after it has sent the initial message: the
\* message id is appended to the conversation if it is not in it yet
AfterInitial(st, cid) ==
  IF st.result # 0 /\ st.result \notin Range(st.conversations[cid].messages)
  THEN [st EXCEPT !.conversations[cid].messages = Append(@, st.result)]
  ELSE st

\* create_group_conversation(initiator, participants, subject,
\* initial_message): None for an unknown initiator or without a registered
\* participant; the conversation is created without messages, the initial
\* message, if there is one, is sent into it, and the system message about
\* the creation gets its task
CreateGroupConversation(initiator, participants, initial) ==
  LET valid == SelectSeq(participants, LAMBDA p : p \in agent_directory)
      cid == Len(conversations) + 1
      st == [CommState EXCEPT
               !.conversations =
                  Append(@, [participants |-> <<initiator>> \o valid,
                             messages |-> <<>>, status |-> "active",
                             departed |-> <<>>]),
               !.active = @ \cup {cid}]
  IN  /\ initiator \in agent_directory
      /\ valid # <<>>
      /\ Len(system_tasks) < PendingLimit
      /\ Sent(IF initial
              THEN AfterInitial(
                     Send(st, Message("notification", initiator, valid, cid, FALSE)),
                     cid)
              ELSE [st EXCEPT !.result = 0])
      /\ system_tasks' =
           Append(system_tasks,
                  Message("system", System, <<initiator>> \o valid, cid, FALSE))
      /\ UNCHANGED <<agent_directory, message_handlers>>

\* ------------------------------------------- the communication interface alone
\* The inputs of the operations, by scenario: "comm_conv" has two agents that
\* write to each other, leave conversations and unregister; "comm_broadcast"
\* has three agents, with and without handler, that broadcast and unregister;
\* "comm_send" has two agents, and a third that never registers, that write to
\* lists of registered, unknown and system recipients, with and without
\* acknowledgment; "comm_group" has two agents that create group
\* conversations, write into the conversations there are, reply and
\* unregister.
CommInputs ==
  [agents |-> IF scenario = "comm_broadcast" THEN (1..MaxCommAgents) ELSE {1, 2},
   handlers |-> IF scenario = "comm_broadcast" THEN BOOLEAN ELSE {TRUE},
   unregister |->
     CASE scenario = "comm_send" -> {}
       [] scenario = "comm_group" -> {1, 2}
       [] OTHER -> 1..MaxCommAgents,
   leave |-> IF scenario = "comm_conv" THEN {1, 2} ELSE {},
   sends |->
     CASE scenario = "comm_conv" ->
            {Message("request", s, <<r>>, 0, FALSE) : s \in {1, 2}, r \in {1, 2}}
       [] scenario = "comm_broadcast" ->
            {Message(BROADCAST, s, <<>>, 0, ack) :
               s \in {System} \cup (1..MaxCommAgents), ack \in BOOLEAN}
       [] scenario = "comm_group" ->
            {Message("request", 1, <<2>>, cid, cid = 0) :
               cid \in {0} \cup DOMAIN conversations}
       [] OTHER ->
            {Message("request", s, r, 0, ack) :
               s \in {System, 1, 3},
               r \in {<<>>, <<System>>, <<3>>, <<1, 2>>, <<2, 3>>, <<2, System>>},
               ack \in BOOLEAN}]

CommInit ==
  /\ InitState
  /\ scenario \in {"comm_conv", "comm_broadcast", "comm_send"}
  /\ EventInitState
  /\ CommInitState
  /\ ExecInitState
  /\ DecisionInitState

CommNext ==
  \/ (\E a \in CommInputs.agents, handler \in CommInputs.handlers :
        RegisterCommAgent(a, handler)) /\ UNCHANGED <<scheduler_vars, event_vars, exec_vars, batch_vars, decision_vars>>
  \/ (\E a \in CommInputs.unregister : UnregisterCommAgent(a))
       /\ UNCHANGED <<scheduler_vars, event_vars, exec_vars, batch_vars, decision_vars>>
  \/ (\E msg \in CommInputs.sends : SendMessage(msg))
       /\ UNCHANGED <<scheduler_vars, event_vars, exec_vars, batch_vars, decision_vars>>
  \/ (\E c \in DOMAIN conversations, a \in CommInputs.leave : LeaveConversation(c, a))
       /\ UNCHANGED <<scheduler_vars, event_vars, exec_vars, batch_vars, decision_vars>>
  \/ RunSystemTask /\ UNCHANGED <<scheduler_vars, event_vars, exec_vars, batch_vars, decision_vars>>

CommSpec == CommInit /\ [][CommNext]_vars

\* The interface with group conversations and replies
GroupInit ==
  /\ InitState
  /\ scenario = "comm_group"
  /\ EventInitState
  /\ CommInitState
  /\ ExecInitState
  /\ DecisionInitState

GroupNext ==
  \/ (\E a \in CommInputs.agents, handler \in CommInputs.handlers :
        RegisterCommAgent(a, handler)) /\ UNCHANGED <<scheduler_vars, event_vars, exec_vars, batch_vars, decision_vars>>
  \/ (\E a \in CommInputs.unregister : UnregisterCommAgent(a))
       /\ UNCHANGED <<scheduler_vars, event_vars, exec_vars, batch_vars, decision_vars>>
  \/ (\E msg \in CommInputs.sends : SendMessage(msg))
       /\ UNCHANGED <<scheduler_vars, event_vars, exec_vars, batch_vars, decision_vars>>
  \/ (\E orig \in 1..MaxMessages : ReplyToMessage(orig, 2))
       /\ UNCHANGED <<scheduler_vars, event_vars, exec_vars, batch_vars, decision_vars>>
  \/ (\E initial \in BOOLEAN : CreateGroupConversation(1, <<2, 3>>, initial))
       /\ UNCHANGED <<scheduler_vars, event_vars, exec_vars, batch_vars, decision_vars>>
  \/ RunSystemTask /\ UNCHANGED <<scheduler_vars, event_vars, exec_vars, batch_vars, decision_vars>>

GroupSpec == GroupInit /\ [][GroupNext]_vars

\* ------------------------------------------------------- the action executor
\* The execute_action call at nesting level depth ends, and with it, without
\* another await, the calls it is nested in: the finally block removes the
\* active execution and stores and returns the ActionResult; an outer call
\* is in _retry_action, which on success rewrites the stored result with
\* attempts = previous_attempts + 1, and the outer call then returns success
\* with the stored attempts; on failure the outer call returns its own error,
\* that of its handler, with its own attempts.
Finish(depth, success, error) ==
  /\ exec_pc' = "returned"
  /\ exec_depth' = 0
  /\ waited' = 0
  /\ active_executions' = FALSE
  /\ exec_result' =
       [success |-> success,
        error |-> IF success THEN None ELSE IF depth = 1 THEN error ELSE "Action failed",
        attempts |-> IF success /\ depth > 1 THEN exec_attempts + 1 ELSE exec_attempts]
  /\ action_results' = exec_result'

\* (a variant that takes the exception of the handler for a result)
Raised_AsSuccess(a, depth) == Finish(depth, TRUE, None)

\* the "except Exception" branch of the call at level depth for action a:
\* _retry_action if the action is retryable and attempts < max_retries
Raised(a, depth) ==
  IF a.retryable /\ exec_attempts < a.max_retries
  THEN /\ exec_pc' = "backoff"
       /\ exec_depth' = depth
       /\ waited' = 0
       /\ active_executions' = TRUE
       /\ UNCHANGED <<action_results, exec_result>>
  ELSE Finish(depth, FALSE, "Action failed")

\* a call of execute_action for action a, nested in depth calls, gets to its
\* await: the execution is stored as active and the task of handler(action)
\* is created; asyncio.wait then either waits or raises TypeError, which
\* leaves the handler's task running and reaches execute_action as an
\* exception of the execution
Invoke(a, depth) ==
  /\ handler_tasks' = Append(handler_tasks, [left |-> a.duration, state |-> "running"])
  /\ IF WaitRejectsCoroutines
     THEN Raised(a, depth + 1)
     ELSE /\ exec_pc' = "running"
          /\ exec_depth' = depth + 1
          /\ waited' = 0
          /\ active_executions' = TRUE
          /\ UNCHANGED <<action_results, exec_result>>

\* execute_action(a), called by a client: without a handler for the type of
\* the action a failure is returned and nothing is stored
ExecuteAction(a) ==
  /\ exec_pc = "idle"
  /\ action' = a
  /\ IF a.has_handler
     THEN Invoke(a, 0)
     ELSE /\ exec_pc' = "returned"
          /\ exec_result' = [success |-> FALSE, error |-> "No handler registered",
                             attempts |-> exec_attempts]
          /\ UNCHANGED <<exec_depth, waited, handler_tasks, active_executions,
                         action_results>>
  /\ UNCHANGED cancel_result

\* the i-th task of handler(action) ends: the first action.failures
\* invocations raise, the later ones return; the execute_action call that
\* awaits it goes on
HandlerEnds(i) ==
  /\ i \in DOMAIN handler_tasks
  /\ handler_tasks[i].state = "running"
  /\ handler_tasks[i].left = 0
  /\ handler_tasks' =
       [handler_tasks EXCEPT ![i].state = IF i <= action.failures THEN "raised"
                                          ELSE "returned"]
  /\ IF exec_pc = "running" /\ i = Len(handler_tasks)
     THEN IF i <= action.failures
          THEN Raised(action, exec_depth)
          ELSE Finish(exec_depth, TRUE, None)
     ELSE UNCHANGED <<exec_pc, exec_depth, waited, active_executions, action_results,
                      exec_result>>
  /\ UNCHANGED <<action, cancel_result>>

\* the timeout of asyncio.wait_for expires: wait_for cancels the task of
\* _execute_handler, which is in asyncio.wait; asyncio.wait does not cancel
\* what it waits for, so the task of handler(action) goes on; execute_action
\* gets TimeoutError
TimesOut ==
  /\ exec_pc = "running"
  /\ waited >= action.timeout
  /\ handler_tasks[Len(handler_tasks)].state = "running"
  /\ Finish(exec_depth, FALSE, "Action timed out")
  /\ UNCHANGED <<action, handler_tasks, cancel_result>>

\* cancel_action(action_id): False without an active execution; with one,
\* the cancel event stored for the action id is set and True returned;
\* _execute_handler, if it waits, cancels the task of the handler and raises
\* CancelledError; during the sleep of _retry_action the event is that of an
\* execution that has ended
CancelAction ==
  /\ cancel_result' = [called |-> TRUE, result |-> active_executions, pc |-> exec_pc,
                       invocations |-> Len(handler_tasks)]
  /\ IF active_executions /\ exec_pc = "running"
     THEN /\ handler_tasks' =
               [handler_tasks EXCEPT ![Len(handler_tasks)].state = "cancelled"]
          /\ Finish(exec_depth, FALSE, "Action was cancelled")
     ELSE UNCHANGED <<exec_pc, exec_depth, waited, handler_tasks, active_executions,
                      action_results, exec_result>>
  /\ UNCHANGED action

\* the sleep of _retry_action (2 ** previous_attempts) ends: execute_action
\* is called with the copy of the action
BackoffEnds ==
  /\ exec_pc = "backoff"
  /\ waited >= Pow2(exec_attempts)
  /\ exec_depth < MaxDepth
  /\ Invoke(action, exec_depth)
  /\ UNCHANGED <<action, cancel_result>>

\* time passes, for the wait of the innermost call and for the handlers that
\* run; what is due happens first
ExecTick ==
  /\ exec_pc \in {"running", "backoff"}
       \/ \E i \in DOMAIN handler_tasks : handler_tasks[i].state = "running"
  /\ \A i \in DOMAIN handler_tasks :
       handler_tasks[i].state = "running" => handler_tasks[i].left > 0
  /\ exec_pc = "running" => waited < action.timeout
  /\ exec_pc = "backoff" => waited < Pow2(exec_attempts)
  /\ waited' = IF exec_pc \in {"running", "backoff"} THEN waited + 1 ELSE waited
  /\ handler_tasks' =
       [i \in DOMAIN handler_tasks |->
          IF handler_tasks[i].state = "running"
          THEN [handler_tasks[i] EXCEPT !.left = @ - 1] ELSE handler_tasks[i]]
  /\ UNCHANGED <<action, exec_pc, exec_depth, active_executions, action_results,
                 exec_result, cancel_result>>

\* The actions of a run: with and without a handler for their type,
\* retryable or not, max_retries 1 to 3, a handler that takes less or more than
\* the timeout and that raises never, the first time, the first two times, or
\* always as far as the nesting goes.
ExecNext ==
  \/ (\E a \in [has_handler : BOOLEAN, timeout : {2}, retryable : BOOLEAN,
                 max_retries : 1..3, duration : {1, 3},
                 failures : {0, 1, 2, MaxDepth}] : ExecuteAction(a))
       /\ UNCHANGED <<scheduler_vars, event_vars, comm_vars, batch_vars, decision_vars>>
  \/ (\E i \in 1..MaxDepth : HandlerEnds(i))
       /\ UNCHANGED <<scheduler_vars, event_vars, comm_vars, batch_vars, decision_vars>>
  \/ TimesOut /\ UNCHANGED <<scheduler_vars, event_vars, comm_vars, batch_vars, decision_vars>>
  \/ CancelAction /\ UNCHANGED <<scheduler_vars, event_vars, comm_vars, batch_vars, decision_vars>>
  \/ BackoffEnds /\ UNCHANGED <<scheduler_vars, event_vars, comm_vars, batch_vars, decision_vars>>
  \/ ExecTick /\ UNCHANGED <<scheduler_vars, event_vars, comm_vars, batch_vars, decision_vars>>

ExecInit ==
  /\ InitState
  /\ scenario \in {"exec_py310", "exec_py311"}
  /\ EventInitState
  /\ CommInitState
  /\ ExecInitState
  /\ DecisionInitState

ExecSpec == ExecInit /\ [][ExecNext]_vars

\* --------------------------- execute_actions and execute_with_dependencies
\* The actions of a call have the ids 1, 2, ... in the order of the list.  An
\* execute_action call is followed by what it returns, not through its
\* timing: executions[i] counts the invocations of the handler.

\* execute_action(a) up to its first await
Begin(a) ==
  IF a.has_handler
  THEN [state |-> "running", invocations |-> 1, success |-> FALSE, error |-> None]
  ELSE [state |-> "returned", invocations |-> 0, success |-> FALSE,
        error |-> "No handler registered"]

\* the await of the execution e of action a ends: with TimeoutError if the
\* handler takes the timeout or longer, else with the handler's exception in
\* its first a.failures invocations (in every invocation if asyncio.wait
\* rejects coroutines), else with its value.  After an exception
\* _retry_action calls execute_action again, with attempts = 1 again, if the
\* action is retryable and 1 < max_retries; the calls that nest return when
\* the innermost does.
End(e, a) ==
  IF WaitRejectsCoroutines \/ (a.duration < a.timeout /\ e.invocations <= a.failures)
  THEN IF a.retryable /\ exec_attempts < a.max_retries
       THEN [e EXCEPT !.invocations = IF @ < MaxDepth THEN @ + 1 ELSE @]
       ELSE [e EXCEPT !.state = "returned", !.error = "Action failed"]
  ELSE IF a.duration >= a.timeout
       THEN [e EXCEPT !.state = "returned", !.error = "Action timed out"]
       ELSE [e EXCEPT !.state = "returned", !.success = TRUE]

\* execute_with_dependencies' loop from its head to its next await, with
\* pending pend, completed comp and results res: the actions whose
\* dependencies are all completed leave pending and are executed in parallel;
\* if there is none, what is pending gets a failure
Round(actions, pend, comp, res) ==
  LET exe == {i \in pend : actions[i].dependencies \subseteq comp}
  IN  /\ completed' = comp
      /\ IF pend = {} \/ exe = {}
         THEN /\ results' =
                   [i \in DOMAIN res \cup pend |->
                      IF i \in pend
                      THEN [success |-> FALSE, error |-> "Circular or missing dependency"]
                      ELSE res[i]]
              /\ batch_pc' = "returned"
              /\ pending' = pend
              /\ UNCHANGED <<executable, executions>>
         ELSE /\ pending' = pend \ exe
              /\ executable' = exe
              /\ executions' = [i \in DOMAIN executions \cup exe |->
                                  IF i \in exe THEN Begin(actions[i]) ELSE executions[i]]
              /\ results' = res
              /\ batch_pc' = "running"

\* execute_actions(actions, parallel) and execute_with_dependencies(actions),
\* up to the first await: sequential mode calls execute_action for the first
\* action, parallel mode for all of them (gather)
BatchCall(call) ==
  /\ batch_pc = "idle"
  /\ batch_call' = call
  /\ IF call.mode = "dependencies"
     THEN Round(call.actions, DOMAIN call.actions, {}, <<>>)
     ELSE /\ executable' = DOMAIN call.actions
          /\ executions' = [i \in (IF call.mode = "parallel" THEN DOMAIN call.actions ELSE {1}) |->
                              Begin(call.actions[i])]
          /\ batch_pc' = "running"
          /\ UNCHANGED <<pending, completed, results>>

\* the execution task that the execute_action call of action i awaits ends
ExecutionEnds(i) ==
  /\ batch_pc = "running"
  /\ i \in DOMAIN executions /\ executions[i].state = "running"
  /\ executions' = [executions EXCEPT ![i] = End(@, batch_call.actions[i])]
  /\ UNCHANGED <<batch_call, batch_pc, pending, completed, executable, results>>

\* cancel_action(i) while the execute_action call of action i awaits its
\* execution task
CancelExecution(i) ==
  /\ batch_pc = "running"
  /\ i \in DOMAIN executions /\ executions[i].state = "running"
  /\ executions' = [executions EXCEPT ![i].state = "returned",
                                      ![i].error = "Action was cancelled"]
  /\ UNCHANGED <<batch_call, batch_pc, pending, completed, executable, results>>

\* sequential mode: the execute_action call of the loop has returned; its
\* result is stored and the next action, if there is one, is executed
SequentialNext ==
  /\ batch_pc = "running" /\ batch_call.mode = "sequential"
  /\ LET i == Cardinality(DOMAIN executions)
     IN  /\ executions[i].state = "returned"
         /\ results' = [k \in 1..i |->
                          IF k = i THEN [success |-> executions[i].success,
                                         error |-> executions[i].error]
                          ELSE results[k]]
         /\ IF i + 1 \in executable
            THEN /\ executions' = [k \in 1..(i + 1) |->
                                     IF k = i + 1 THEN Begin(batch_call.actions[k])
                                     ELSE executions[k]]
                 /\ UNCHANGED batch_pc
            ELSE /\ batch_pc' = "returned"
                 /\ UNCHANGED executions
  /\ UNCHANGED <<batch_call, pending, completed, executable>>

\* parallel mode: asyncio.gather returns when all the execute_action calls
\* have returned; the results are stored.  execute_with_dependencies adds
\* the ids of the successful actions to completed and goes on with its loop.
GatherReturns ==
  /\ batch_pc = "running" /\ batch_call.mode # "sequential"
  /\ \A i \in executable : executions[i].state = "returned"
  /\ LET res == [i \in DOMAIN results \cup executable |->
                   IF i \in executable THEN [success |-> executions[i].success,
                                              error |-> executions[i].error]
                   ELSE results[i]]
     IN  IF batch_call.mode = "dependencies"
         THEN /\ Round(batch_call.actions, pending,
                       completed \cup {i \in executable : executions[i].success}, res)
              /\ UNCHANGED batch_call
         ELSE /\ results' = res
              /\ batch_pc' = "returned"
              /\ UNCHANGED <<batch_call, pending, completed, executable, executions>>

\* The calls of a run.  The actions of a batch (kinds): one whose handler
\* returns, one without a handler, one whose handler raises and that is not
\* retryable, one whose handler raises once, one whose handler always raises
\* (both retryable, with the default max_retries 3), and one whose handler
\* takes longer than the timeout.  The dependencies of a batch of n actions
\* (deps): none, a chain (each action depends on the one before it), a cycle,
\* an id on which the first action depends that is not in the batch, or the
\* last action depends on the first.
BatchCalls ==
  LET ActionKinds ==
        {<<TRUE, TRUE, 0, 1>>, <<FALSE, TRUE, 0, 1>>, <<TRUE, FALSE, 1, 1>>,
         <<TRUE, TRUE, 1, 1>>, <<TRUE, TRUE, MaxDepth, 1>>, <<TRUE, TRUE, 0, 3>>}
      Dependencies(n) ==
        {[i \in 1..n |-> {}],
         [i \in 1..n |-> IF i = 1 THEN {} ELSE {i - 1}],
         [i \in 1..n |-> {(i % n) + 1}],
         [i \in 1..n |-> IF i = 1 THEN {MaxBatch + 1} ELSE {}],
         [i \in 1..n |-> IF i = n THEN {1} ELSE {}]}
  IN  UNION {{[mode |-> m,
               actions |-> [i \in 1..n |->
                              [has_handler |-> kinds[i][1],
                               retryable |-> kinds[i][2],
                               max_retries |-> 3,
                               failures |-> kinds[i][3],
                               duration |-> kinds[i][4],
                               timeout |-> 2,
                               dependencies |-> IF m = "dependencies" THEN deps[i] ELSE {}]]] :
                m \in {"sequential", "parallel", "dependencies"},
                kinds \in [1..n -> ActionKinds], deps \in Dependencies(n)} : n \in 1..MaxBatch}

BatchNext ==
  \/ (\E call \in BatchCalls : BatchCall(call))
       /\ UNCHANGED <<scheduler_vars, event_vars, comm_vars, exec_vars, decision_vars>>
  \/ (\E i \in 1..MaxBatch : ExecutionEnds(i))
       /\ UNCHANGED <<scheduler_vars, event_vars, comm_vars, exec_vars, decision_vars>>
  \/ (\E i \in 1..MaxBatch : CancelExecution(i))
       /\ UNCHANGED <<scheduler_vars, event_vars, comm_vars, exec_vars, decision_vars>>
  \/ SequentialNext
       /\ UNCHANGED <<scheduler_vars, event_vars, comm_vars, exec_vars, decision_vars>>
  \/ GatherReturns
       /\ UNCHANGED <<scheduler_vars, event_vars, comm_vars, exec_vars, decision_vars>>

\* The event loop runs every callback that is ready: what the executor itself
\* does happens as soon as it can; calls and cancellations come from outside.
BatchSpec ==
  /\ ExecInit
  /\ [][BatchNext]_vars
  /\ WF_vars(/\ \/ \E i \in 1..MaxBatch : ExecutionEnds(i)
                \/ SequentialNext
                \/ GatherReturns
             /\ UNCHANGED <<scheduler_vars, event_vars, comm_vars, exec_vars, decision_vars>>)

\* ===========================================================================
\* The decision engine of backend/agents/decision_engine.py (class
\* DecisionEngine): _parse_decision_from_response and execute_decision.
\*
\* A response text is a sequence of lines.  A line has a head, the section
\* header "**Decision:**", "**Confidence:**" or "**Reasoning:**" at its start
\* (None: the line starts with no "**"), and a body, the rest of the line:
\* nothing, a text, or a text that starts with the number 0.9 or 1.5.  A
\* confidence is counted in hundredths: 0.8 is 80.  The alternatives and the
\* actions of a response are not followed.
\* ===========================================================================
\* the responses of a run that follows the parsing
Responses ==
  LET Lines == [head : {"Decision", "Confidence", "Reasoning", None},
                body : {"", "text", "0.9", "1.5"}]
  IN  IF scenario = "parse" THEN UNION {[1..n -> Lines] : n \in 0..MaxLines} ELSE {}

\* whitespace only
Blank(l) == l.head = None /\ l.body = ""
\* the least number of a set of positions (0: the set is empty)
Least(S) == IF S = {} THEN 0 ELSE CHOOSE i \in S : \A j \in S : i <= j
\* str.strip() of a text of several lines
Strip(g) ==
  LET text == {k \in DOMAIN g : ~Blank(g[k])}
  IN  IF text = {} THEN <<>>
      ELSE SubSeq(g, Least(text), CHOOSE i \in text : \A j \in text : i >= j)

\* group(1), stripped, of
\*   re.search(r"(?:^|\n)\s*\*\*<name>:\*\*\s*(.*?)(?:\n\s*\*\*|$)", r, re.DOTALL),
\* or the default "" without a match.  The match is at the first line that
\* starts with the header.  The \s* after the header takes all the whitespace
\* that follows, line ends included, so the group starts with the rest of the
\* header's line or, if that is blank, with the next line that is not blank,
\* whatever that line starts with; the lazy group ends before the first later
\* line that starts with "**", or at the end of the text.
Section(r, name) ==
  LET i == Least({k \in DOMAIN r : r[k].head = name})
      start == IF i = 0 \/ r[i].body # "" THEN i
               ELSE Least({j \in DOMAIN r : j > i /\ ~Blank(r[j])})
      stop == Least({k \in DOMAIN r : k > start /\ r[k].head # None} \cup {Len(r) + 1})
  IN  IF start = 0 THEN <<>>
      ELSE Strip([k \in 1..(stop - start) |->
                    IF start + k - 1 = i THEN [head |-> None, body |-> r[i].body]
                    ELSE r[start + k - 1]])

\* float(group(1)) of
\*   re.search(r"(?:^|\n)\s*\*\*Confidence:\*\*\s*(0\.\d+|1\.0|1|0)", r),
\* clamped to [0, 1], or the default 0.5 without a match.  The number is what
\* follows the header after whitespace, line ends included: "0.9" gives 0.9,
\* of "1.5" the group takes "1".  The search goes on to a later header if the
\* first one is not followed by a number.
Confidence(r) ==
  LET Number(i) ==
        LET j == IF r[i].body # "" THEN i
                 ELSE Least({k \in DOMAIN r : k > i /\ ~Blank(r[k])})
        IN  IF j = 0 \/ (j # i /\ r[j].head # None) THEN -1
            ELSE CASE r[j].body = "0.9" -> 90
                   [] r[j].body = "1.5" -> 100
                   [] OTHER -> -1
      i == Least({k \in DOMAIN r : r[k].head = "Confidence" /\ Number(k) >= 0})
  IN  IF i = 0 THEN 50
      ELSE IF Number(i) > 100 THEN 100 ELSE Number(i)

\* _parse_decision_from_response(response_text, context); a run follows one
\* call
ParseDecisionFromResponse(r) ==
  /\ ~parsed.called
  /\ parsed' = [called |-> TRUE, response |-> r,
                result |-> [decision |-> Section(r, "Decision"),
                            confidence |-> Confidence(r),
                            reasoning |-> Section(r, "Reasoning")]]
  /\ UNCHANGED <<executed, deciding, decided>>

\* (a variant that gives every task the priority MEDIUM)
DecisionPriority_Medium(d) == MEDIUM

\* the priority of the tasks of execute_decision(d)
DecisionPriority(d) == IF d.confidence > 80 THEN HIGH ELSE MEDIUM

\* execute_decision(d): a Task is created for every action, in the order of
\* decision.actions, with the defaults of class Task but for its priority,
\* and submitted (submit_task, which starts the scheduler that is not
\* running); the task ids are returned.  No call in it suspends.
ExecuteDecision(d) ==
  LET n == Len(d.actions)
      ids == [i \in 1..n |-> NextId + i - 1]
  IN  /\ ~spinning
      /\ Range(ids) \subseteq ScenarioTasks
      /\ tasks' = [t \in DOMAIN tasks \cup Range(ids) |->
                     IF t \in DOMAIN tasks THEN tasks[t]
                     ELSE NewTask(DecisionPriority(d), DefaultMaxRetries, {}, None)]
      /\ task_queue' = task_queue \cup {<<DecisionPriority(d), now, t>> : t \in Range(ids)}
      /\ running' = (running \/ n > 0)
      /\ executed' = [called |-> TRUE, decision |-> d,
                      result |-> [task_ids |-> ids,
                                  status |-> IF n > 0 THEN "scheduled" ELSE "no_actions"]]
      /\ UNCHANGED <<active_tasks, agents, available_agents, task_callbacks, spinning,
                     proc, now, attempts, cb_calls, scenario, parsed, deciding,
                     decided>>

\* The decisions of a run that follows execute_decision: confidence 0, 0.5,
\* 0.8, 0.81 and 1, and up to MaxActions actions, each with its description.
Decisions ==
  IF scenario = "decide"
  THEN [confidence : {0, 50, 80, 81, 100},
        actions : UNION {[1..n -> {"description"}] : n \in 0..MaxActions}]
  ELSE {}

DecisionInit ==
  /\ InitState
  /\ scenario \in {"parse", "decide"}
  /\ EventInitState
  /\ CommInitState
  /\ ExecInitState
  /\ DecisionInitState

DecisionNext ==
  \/ (\E r \in Responses : ParseDecisionFromResponse(r))
       /\ UNCHANGED <<scheduler_vars, event_vars, comm_vars, exec_vars, batch_vars>>
  \/ (\E d \in Decisions : ExecuteDecision(d))
       /\ UNCHANGED <<event_vars, comm_vars, exec_vars, batch_vars>>
  \/ Tick /\ UNCHANGED other_vars

DecisionSpec == DecisionInit /\ [][DecisionNext]_vars

\* ----------------------------------------------------------- make_decision
\* the id of the engine's executive agent: self.executive_agent_config is
\* built once, its agent_id with it, and every make_decision call copies the
\* configuration, so the agents of all calls carry this one id
DecisionAgent == CHOOSE a \in AgentIds : AgentTypeOf(a) = EXECUTIVE

\* make_decision(context, decision_type), up to `await
\* executive_agent.run(messages)`: the agent is registered with the scheduler
\* (register_agent: the registry entry is set, the id is appended to the
\* pool of its type).  The calls in progress and the length of the pool are
\* capped.
MakeDecision ==
  /\ ~spinning
  /\ deciding < MaxDecisions
  /\ Len(available_agents[AgentTypeOf(DecisionAgent)]) < MaxDecisions
  /\ agents' = agents \cup {DecisionAgent}
  /\ available_agents' =
       [available_agents EXCEPT ![AgentTypeOf(DecisionAgent)] = Append(@, DecisionAgent)]
  /\ deciding' = deciding + 1
  /\ UNCHANGED <<tasks, task_queue, active_tasks, task_callbacks, running,
                 spinning, proc, now, attempts, cb_calls, scenario, parsed,
                 executed, decided>>

\* the agent's run returned (ok: the response is parsed and returned) or
\* raised; the finally block calls unregister_agent, whose list.remove raises
\* ValueError when the id is in the registry but in no pool, and the call
\* then ends with that exception.  The text of the response is not followed.
DecisionEnds(ok) ==
  /\ ~spinning
  /\ deciding > 0
  /\ IF UnregisterResult(DecisionAgent) = "true"
     THEN /\ available_agents' =
               [available_agents EXCEPT
                  ![AgentTypeOf(DecisionAgent)] = RemoveFirst(@, DecisionAgent)]
          /\ agents' = agents \ {DecisionAgent}
     ELSE UNCHANGED <<agents, available_agents>>
  /\ deciding' = deciding - 1
  /\ decided' = [called |-> TRUE,
                 outcome |-> IF ok /\ UnregisterResult(DecisionAgent) # "raises"
                             THEN "returned" ELSE "raised"]
  /\ UNCHANGED <<tasks, task_queue, active_tasks, task_callbacks, running,
                 spinning, proc, now, attempts, cb_calls, scenario, parsed,
                 executed>>

\* The runs of decisions next to the scheduler's work: the other agents of
\* the scheduler are registered, tasks with the defaults of class Task are
\* submitted, assigned and run, and are not cancelled.
EngineInit ==
  /\ InitState
  /\ scenario = "engine"
  /\ EventInitState
  /\ CommInitState
  /\ ExecInitState
  /\ DecisionInitState

EngineNext ==
  \/ (\E a \in AgentIds \ {DecisionAgent} : RegisterAgent(a))
       /\ UNCHANGED other_vars
  \/ (\E prio \in SubmitPriorities, mr \in SubmitMaxRetries,
        req \in SubmitAgentTypes, cb \in SubmitCallbacks :
       \E deps \in SubmitDependencies(NextId) :
         SubmitTask(NextId, prio, mr, deps, req, cb))
       /\ UNCHANGED other_vars
  \/ MakeDecision
       /\ UNCHANGED <<event_vars, comm_vars, exec_vars, batch_vars>>
  \/ (\E ok \in BOOLEAN : DecisionEnds(ok))
       /\ UNCHANGED <<event_vars, comm_vars, exec_vars, batch_vars>>
  \/ LoopIdle /\ UNCHANGED other_vars
  \/ LoopAssign /\ UNCHANGED other_vars
  \/ (\E t \in TaskIds : ProcessStart(t))
       /\ UNCHANGED other_vars
  \/ (\E t \in TaskIds : AgentRunEnds(t))
       /\ UNCHANGED other_vars

EngineSpec == EngineInit /\ [][EngineNext]_vars

\* ------------------------------------------------------------------ claims
Done(t) == t \in DOMAIN tasks /\ tasks[t].status \in Terminal

\* C1: every submitted task eventually reaches a terminal status (COMPLETED,
\* FAILED or CANCELLED), given that agent runs end and an agent is registered.
C1_EveryTaskTerminates ==
  \A t \in TaskIds :
    [](t \in DOMAIN tasks /\ agents # {} => <>Done(t))

RECURSIVE DepClosure(_, _)
\* the ids reached from the set S along the dependencies of submitted tasks
DepClosure(S, n) ==
  IF n = 0 THEN S
  ELSE DepClosure(S \cup UNION {tasks[x].dependencies : x \in S \cap DOMAIN tasks},
                  n - 1)

\* t is a member of a dependency cycle
InCycle(t) ==
  t \in DOMAIN tasks /\ t \in DepClosure(tasks[t].dependencies, MaxTasks)

\* C6: the members of a dependency cycle all end in status FAILED.
C6_CycleMembersFail ==
  \A t \in TaskIds :
    [](InCycle(t) /\ agents # {} => <>(InCycle(t) /\ tasks[t].status = FAILED))

\* C2: a task is assigned only when every one of its dependency ids is a
\* known task with status COMPLETED: a task that is ASSIGNED or IN_PROGRESS
\* (or ended COMPLETED or FAILED) has all its dependencies COMPLETED.
C2_AssignedOnlyWithDependenciesCompleted ==
  \A t \in DOMAIN tasks :
    tasks[t].status \in {ASSIGNED, IN_PROGRESS, COMPLETED, FAILED} =>
      \A d \in tasks[t].dependencies :
        d \in DOMAIN tasks /\ tasks[d].status = COMPLETED

\* a subtask that depends on its parent is being executed, the parent COMPLETED
C2_Witness ==
  \E p \in DOMAIN tasks, t \in DOMAIN tasks :
    /\ t \in Range(tasks[p].subtask_ids)
    /\ tasks[t].dependencies = {p}
    /\ tasks[t].status \in {ASSIGNED, IN_PROGRESS}
    /\ tasks[p].status = COMPLETED

\* the tasks that were given to agent a and have not left active_tasks
InFlight(a) == {t \in DOMAIN active_tasks : active_tasks[t] = a}

\* C3: no agent has more than one task in flight, an agent with a task in
\* flight is not in the available pool, and no agent is in the pool twice.
C3_AgentExclusive ==
  \A a \in AgentIds :
    /\ Cardinality(InFlight(a)) <= 1
    /\ InFlight(a) # {} => a \notin Range(available_agents[AgentTypeOf(a)])
    /\ Cardinality({i \in 1..Len(available_agents[AgentTypeOf(a)]) :
                      available_agents[AgentTypeOf(a)][i] = a}) <= 1

\* C4: a task that always fails is run max_retries + 1 times and is then
\* FAILED; the k-th failure puts it back to PENDING, scheduled 2^k time units
\* later (more than after the failure before), and it is not assigned before
\* that time.
C4_RetriesAndBackoff ==
  [][\A t \in DOMAIN tasks :
       /\ attempts'[t] <= tasks[t].max_retries + 1
       /\ tasks'[t].status = FAILED => attempts'[t] = tasks[t].max_retries + 1
       /\ tasks[t].status = IN_PROGRESS /\ tasks'[t].status = PENDING =>
            /\ tasks'[t].retry_count = tasks[t].retry_count + 1
            /\ tasks'[t].retry_count = attempts[t]
            /\ tasks'[t].scheduled_for = now + Pow2(attempts[t])
            /\ attempts[t] > 1 => Pow2(attempts[t]) > Pow2(attempts[t] - 1)
       /\ tasks[t].status = PENDING /\ tasks'[t].status = ASSIGNED =>
            tasks[t].scheduled_for <= now
    ]_vars

\* a task with max_retries = 2 is FAILED after three runs
C4_Witness ==
  \E t \in DOMAIN tasks :
    /\ tasks[t].max_retries = 2
    /\ tasks[t].status = FAILED
    /\ attempts[t] = 3
    /\ tasks[t].scheduled_for = now

\* C5: a task is assigned only when no PENDING task has a higher priority (a
\* lower priority number), so of a HIGH and a LOW task waiting for an agent
\* the HIGH one is assigned first.
C5_HigherPriorityFirst ==
  [][\A b \in DOMAIN tasks :
       tasks[b].status = PENDING /\ tasks'[b].status = ASSIGNED =>
         \A a \in DOMAIN tasks :
           tasks[a].status = PENDING => tasks[a].priority >= tasks[b].priority
    ]_vars

\* the HIGH task a, submitted after the LOW task b, has the only agent
C5_Witness ==
  \E a \in DOMAIN tasks, b \in DOMAIN tasks :
    /\ b < a
    /\ tasks[a].priority = HIGH /\ tasks[b].priority = LOW
    /\ tasks[a].status = ASSIGNED /\ tasks[b].status = PENDING
    /\ attempts[b] = 0
    /\ Cardinality(agents) = 1

\* C7: a task that requires an agent type is assigned only to an agent taken
\* from the available pool of that type (so it stays PENDING while that pool
\* is empty, whatever other agents are available).
C7_RequiredTierOnly ==
  [][\A t \in DOMAIN tasks :
       /\ tasks[t].status = PENDING /\ tasks'[t].status = ASSIGNED
       /\ tasks[t].required_agent_type # None
       => /\ active_tasks'[t] \in Range(available_agents[tasks[t].required_agent_type])
          /\ AgentTypeOf(active_tasks'[t]) = tasks[t].required_agent_type
    ]_vars

\* a CRITICAL task that requires the executive tier has the executive agent,
\* with the manager agent still available
C7_Witness ==
  \E t \in DOMAIN tasks :
    /\ tasks[t].priority = CRITICAL
    /\ tasks[t].required_agent_type = EXECUTIVE
    /\ tasks[t].status = ASSIGNED
    /\ t \in DOMAIN active_tasks /\ AgentTypeOf(active_tasks[t]) = EXECUTIVE
    /\ available_agents[MANAGER] # <<>>

\* C8: the callback of a task submitted with one has been called exactly once
\* when the task has a terminal status, and not at all before.
C8_CallbackExactlyOnce ==
  \A t \in DOMAIN tasks :
    t \in task_callbacks \/ cb_calls[t] > 0 =>
      cb_calls[t] = IF tasks[t].status \in Terminal THEN 1 ELSE 0

RECURSIVE SubtaskClosure(_, _)
\* the tasks reached from the set S along subtask_ids
SubtaskClosure(S, n) ==
  IF n = 0 THEN S
  ELSE SubtaskClosure(
         S \cup UNION {Range(tasks[x].subtask_ids) : x \in S \cap DOMAIN tasks}, n - 1)

\* the direct and transitive subtasks of t
Descendants(t) == SubtaskClosure(Range(tasks[t].subtask_ids), MaxTasks)

\* C9: a cancel that answers true leaves the task CANCELLED, its agent back in
\* the pool and every direct or transitive subtask that was not COMPLETED or
\* CANCELLED now CANCELLED; a cancel that answers false changes nothing.
C9_CancelCascades ==
  [][\A t \in TaskIds :
       CancelTask(t) =>
         IF CancelResult(t)
         THEN /\ tasks'[t].status = CANCELLED
              /\ t \in DOMAIN active_tasks /\ active_tasks[t] \in agents =>
                   active_tasks[t] \in
                     Range(available_agents'[AgentTypeOf(active_tasks[t])])
              /\ \A d \in Descendants(t) :
                   tasks[d].status \notin {COMPLETED, CANCELLED} =>
                     tasks'[d].status = CANCELLED
         ELSE UNCHANGED vars
    ]_vars

\* the place of a status in PENDING -> ASSIGNED -> IN_PROGRESS -> terminal
Rank(status) ==
  CASE status = PENDING -> 0
    [] status = ASSIGNED -> 1
    [] status = IN_PROGRESS -> 2
    [] OTHER -> 3

\* C10, as stated: no step moves a task to an earlier status.
C10_StatusMonotonic ==
  [][\A t \in DOMAIN tasks : Rank(tasks'[t].status) >= Rank(tasks[t].status)]_vars

\* C10, amended: no step moves a task to an earlier status, except that a
\* failed run with a retry left takes the task from IN_PROGRESS back to
\* PENDING, with its retry_count raised by one.
C10_StatusMonotonicButRetry ==
  [][\A t \in DOMAIN tasks :
       \/ Rank(tasks'[t].status) >= Rank(tasks[t].status)
       \/ /\ tasks[t].status = IN_PROGRESS /\ tasks'[t].status = PENDING
          /\ tasks[t].retry_count < tasks[t].max_retries
          /\ tasks'[t].retry_count = tasks[t].retry_count + 1
    ]_vars

\* a task is back in PENDING after a failed run, another has gone on to a
\* terminal status
C10_Witness ==
  \E t \in DOMAIN tasks, u \in DOMAIN tasks :
    /\ tasks[t].status = PENDING /\ tasks[t].retry_count = 1 /\ attempts[t] = 1
    /\ tasks[u].status = CANCELLED /\ attempts[u] = 1

\* C11: at most one execution of a task id is in flight: a task is assigned
\* (its future created) only when no future of an earlier assignment of the
\* same id is waiting to start, running or being cancelled, and a task with
\* such a future is never PENDING, so no queue entry for it can be assigned.
C11_OneExecutionInFlight ==
  [][\A t \in DOMAIN tasks :
       /\ tasks[t].status = PENDING /\ tasks'[t].status = ASSIGNED =>
            proc[t] = NoProc /\ t \notin DOMAIN active_tasks
       /\ proc[t] # NoProc => tasks[t].status \in {ASSIGNED, IN_PROGRESS, CANCELLED}
    ]_vars

\* a task runs for the second time after a failed run, while another task,
\* cancelled during its run, still has its future
C11_Witness ==
  \E t \in DOMAIN tasks, u \in DOMAIN tasks :
    /\ attempts[t] = 2 /\ proc[t].pc = "running"
    /\ tasks[u].status = CANCELLED /\ proc[u].pc = "cancelling"

\* event e waits in the queue of the running bus
Queued(e) == bus_running /\ e \in Range(event_queue)

\* callback cb is subscribed to the type of event e, or globally, and its
\* filter, if it has one, accepts e
Matches(cb, e) ==
  /\ e \in DOMAIN published
  /\ cb \in subscribers[published[e].type] \cup global_subscribers
  /\ cb \in DOMAIN subscriber_filters =>
       FilterResult(subscriber_filters[cb], published[e]) = "accept"

\* C12: with the processors running, every published event is eventually
\* delivered to every subscriber that is (and stays) subscribed to its type
\* or globally and whose filter accepts it.
C12_EveryMatchingSubscriberGetsEvent ==
  \A e \in EventIds, cb \in SubscriberIds :
    []((Queued(e) /\ []Matches(cb, e)) => <>(<<cb, e>> \in delivered))

\* C13: when a subscriber callback raises while it handles an event, every
\* other subscriber in the event's filtered list is still called with the
\* event, and the processor goes on: while the bus runs every processor is
\* ready for the next event or waits for a coroutine callback with all the
\* subscribers it has not called yet still to come.
C13_RaisingCallbackIsolated ==
  /\ \A e \in processed : \A cb \in filtered_subscribers[e] : <<cb, e>> \in delivered
  /\ \A w \in ProcessorIds :
       bus_running =>
         \/ event_processors[w].pc = "idle"
         \/ /\ event_processors[w].pc = "awaiting"
            /\ filtered_subscribers[event_processors[w].event] \subseteq
                 {cb \in 1..(MaxSubscribers + MaxWaiters) :
                    <<cb, event_processors[w].event>> \in delivered}
                   \cup Range(event_processors[w].rest)

\* the first callback raised on event 1, the second was called with it all
\* the same, and event 2, published after it, has been processed too
C13_Witness ==
  /\ processed = {1, 2}
  /\ \E cb \in SubscriberIds, other \in SubscriberIds :
       /\ cb # other
       /\ <<cb, 1>> \in raised
       /\ <<other, 1>> \in delivered /\ <<other, 1>> \notin raised
       /\ <<other, 2>> \in delivered

\* C14: a wait_for_event call with a timeout returns; what it returns is an
\* event of the type that its filter accepts and that its callback was
\* called with, or no event after a timeout; and once it has returned its
\* callback is in no subscriber set.
C14_WaitForEvent ==
  /\ \A k \in WaiterIds :
       [](waiters[k].pc = "waiting" /\ waiters[k].timeout # NoTime =>
            <>(waiters[k].pc = "returned"))
  /\ [](\A k \in WaiterIds :
          waiters[k].pc = "returned" =>
            /\ \A ty \in EventTypes : WaiterCallback(k) \notin subscribers[ty]
            /\ WaiterCallback(k) \notin global_subscribers
            /\ IF waiters[k].result = 0
               THEN waiters[k].deadline # NoTime /\ now >= waiters[k].deadline
               ELSE /\ published[waiters[k].result].type = waiters[k].type
                    /\ FilterResult(waiters[k].filter,
                                    published[waiters[k].result]) = "accept"
                    /\ <<WaiterCallback(k), waiters[k].result>> \in delivered)

\* C15: a conversation with two participants is closed, and out of the active
\* conversations, once both participants have departed from it, each through
\* leave_conversation or through unregister_agent, in any order and mix.
C15_ClosedOnceBothDeparted ==
  \A c \in DOMAIN conversations :
    /\ Cardinality(Range(conversations[c].participants)) = 2
    /\ Range(conversations[c].participants) \subseteq Range(conversations[c].departed)
    => conversations[c].status = "closed" /\ c \notin active_conversations

\* the agents whose handler the last send_message called with message id
Called(id) == {a \in 1..MaxCommAgents : <<"handler", a, id>> \in Range(comm_log)}

\* C16: when a registered agent X has sent a BROADCAST message (itself, or
\* from the task of its registration broadcast), the handler of every agent
\* other than X that is registered and has a handler has been called with
\* the message, once, and the handler of X has not been called with it.
C16_BroadcastToAllButSender ==
  /\ comm_log # <<>>
  /\ comm_log[1][2].type = BROADCAST
  /\ comm_log[1][2].sender \in agent_directory
  => /\ send_result # 0
     /\ Called(send_result) = message_handlers \ {comm_log[1][2].sender}
     /\ Len(SelectSeq(comm_log, LAMBDA l : l[1] = "handler" /\ l[3] = send_result))
          = Cardinality(Called(send_result))

\* the last message sent is a broadcast of an agent that has a handler, and
\* the handlers of the two other agents, and only they, were called with it
C16_Witness ==
  /\ comm_log # <<>>
  /\ comm_log[1][2].type = BROADCAST
  /\ comm_log[1][2].sender \in message_handlers
  /\ agent_directory = 1..MaxCommAgents
  /\ Called(send_result) = (1..MaxCommAgents) \ {comm_log[1][2].sender}

\* C17: send_message returns no id and stores nothing when the sender is
\* neither registered nor the system, or when the message is no broadcast and
\* none of its recipients is registered; otherwise it returns the id and
\* calls the handlers of registered recipients only.
C17_RejectedWithoutRegisteredRecipient ==
  comm_log # <<>> =>
    IF \/ comm_log[1][2].sender \notin agent_directory \cup {System}
       \/ /\ comm_log[1][2].type # BROADCAST
          /\ Range(comm_log[1][2].recipients) \cap agent_directory = {}
    THEN send_result = 0 /\ Len(comm_log) = 1
    ELSE /\ send_result # 0
         /\ Called(send_result) \subseteq agent_directory
         /\ comm_log[1][2].type # BROADCAST =>
              Called(send_result) \subseteq Range(comm_log[1][2].recipients)

\* C17 as the code has it: the recipient "system" is valid too, so the
\* message is rejected when the sender is neither registered nor the system,
\* or when it is no broadcast and none of its recipients is registered or the
\* system; otherwise it is stored, its id is returned, and only handlers of
\* registered recipients are called with it.
C17_RejectedWithoutValidRecipient ==
  comm_log # <<>> =>
    IF \/ comm_log[1][2].sender \notin agent_directory \cup {System}
       \/ /\ comm_log[1][2].type # BROADCAST
          /\ Range(comm_log[1][2].recipients) \cap (agent_directory \cup {System}) = {}
    THEN send_result = 0 /\ Len(comm_log) = 1
    ELSE /\ send_result # 0
         /\ comm_log[2] = <<"stored", comm_log[1][2].sender, send_result>>
         /\ Called(send_result) \subseteq agent_directory
         /\ comm_log[1][2].type # BROADCAST =>
              Called(send_result) \subseteq Range(comm_log[1][2].recipients)

\* a registered agent has sent a message to an unknown recipient only, and
\* nothing has been stored
C17_Witness ==
  /\ comm_log # <<>>
  /\ comm_log[1][2].sender \in agent_directory
  /\ comm_log[1][2].recipients # <<>>
  /\ comm_log[1][2].type # BROADCAST
  /\ send_result = 0
  /\ Len(comm_log) = 1

\* the stored RESPONSE messages in reply to message id
Acks(id) ==
  {m \in DOMAIN messages : messages[m].type = RESPONSE /\ messages[m].in_reply_to = id}

\* what C18 says of the last send_message, when it stored a message that
\* requires acknowledgment and k acknowledgments are due: k RESPONSE messages
\* in reply to it are stored, sent by the system to its sender alone, each
\* after the last handler was called with the original, and none of them
\* requires or has an acknowledgment
AcksSent(k) ==
  /\ Cardinality(Acks(send_result)) = k
  /\ Len(SelectSeq(comm_log, LAMBDA l : l[1] = "stored")) = 1 + k
  /\ \A m \in Acks(send_result) :
       /\ messages[m].sender = System
       /\ messages[m].recipients = <<comm_log[1][2].sender>>
       /\ ~messages[m].requires_acknowledgment
       /\ Acks(m) = {}
       /\ \A i, j \in DOMAIN comm_log :
            /\ comm_log[i] = <<"stored", System, m>>
            /\ comm_log[j][1] = "handler" /\ comm_log[j][3] = send_result
            => j < i

\* C18: a sent message that requires acknowledgment and has k recipients (for
\* a broadcast, the registered agents other than the sender) is followed by
\* exactly k RESPONSE messages in reply to it, sent to its sender after the
\* original was dispatched, and no acknowledgment is acknowledged.
C18_OneAckPerRecipient ==
  /\ comm_log # <<>>
  /\ send_result # 0
  /\ comm_log[1][2].requires_acknowledgment
  => AcksSent(IF comm_log[1][2].type = BROADCAST
              THEN Cardinality(agent_directory \ {comm_log[1][2].sender})
              ELSE Len(messages[send_result].recipients))

\* C18 as the code has it: one acknowledgment for every recipient that is a
\* registered agent, none for the recipient "system".
C18_OneAckPerRegisteredRecipient ==
  /\ comm_log # <<>>
  /\ send_result # 0
  /\ comm_log[1][2].requires_acknowledgment
  => AcksSent(IF comm_log[1][2].type = BROADCAST
              THEN Cardinality(agent_directory \ {comm_log[1][2].sender})
              ELSE Len(SelectSeq(messages[send_result].recipients,
                                 LAMBDA r : r \in agent_directory)))

\* a registered agent with a handler has sent a message that requires
\* acknowledgment to two registered agents, and two acknowledgments are stored
C18_Witness ==
  /\ comm_log # <<>>
  /\ send_result # 0
  /\ comm_log[1][2].requires_acknowledgment
  /\ comm_log[1][2].sender \in message_handlers
  /\ Cardinality(Acks(send_result)) = 2

\* C19: when execute_action has returned for an action whose handler takes
\* longer than the action's timeout (and nobody cancelled the action), the
\* result has success = false and the error of a timeout, and the task of
\* the handler has been cancelled: it is not running and did not run to its
\* end.
C19_TimeoutFailsAndCancelsHandler ==
  /\ exec_pc = "returned"
  /\ action.has_handler
  /\ action.duration > action.timeout
  /\ exec_result.error # "Action was cancelled"
  => /\ ~exec_result.success
     /\ exec_result.error = "Action timed out"
     /\ \A i \in DOMAIN handler_tasks : handler_tasks[i].state = "cancelled"

\* C20: for a retryable action whose handler raises on every invocation, the
\* handler is invoked at most once and once more for each of the max_retries
\* retries, and what execute_action returns has success = false.
C20_RetriesBoundedByMaxRetries ==
  /\ exec_pc # "idle"
  /\ action.has_handler
  /\ action.retryable
  /\ action.failures = MaxDepth
  => /\ Len(handler_tasks) <= 1 + action.max_retries
     /\ exec_pc = "returned" => ~exec_result.success

\* C21: when execute_action has returned for a retryable action whose handler
\* raised on its first k invocations, k below max_retries, and then returned
\* in time (and nobody cancelled it), the result returned and the result
\* stored both have success = true, no error and attempts = k + 1, the handler
\* having been invoked k + 1 times; and the retry made at nesting level j
\* starts only after a wait of 2 ** j.
C21_SuccessAfterRetriesCountsAttempts ==
  /\ [](/\ exec_pc = "returned"
        /\ action.has_handler
        /\ action.retryable
        /\ action.failures < action.max_retries
        /\ action.duration < action.timeout
        /\ \A i \in DOMAIN handler_tasks : handler_tasks[i].state # "cancelled"
        => /\ exec_result = [success |-> TRUE, error |-> None,
                             attempts |-> action.failures + 1]
           /\ action_results = exec_result
           /\ Len(handler_tasks) = action.failures + 1)
  /\ [][exec_pc = "backoff" /\ exec_depth' = exec_depth + 1
          => waited >= Pow2(exec_depth)]_vars

\* C24: what execute_action returns is an ActionResult in which success = true
\* goes with no error and success = false with an error; it is a failure when
\* the action's type has no handler and when the handler the call waited for
\* last raised, was cancelled or was still running (timeout), a success only
\* if that handler returned; and the action is not an active execution then.
C24_FailuresBecomeResults ==
  exec_pc = "returned" =>
    /\ exec_result.success => exec_result.error = None
    /\ ~exec_result.success =>
         exec_result.error \in {"No handler registered", "Action timed out",
                                "Action was cancelled", "Action failed"}
    /\ ~action.has_handler => ~exec_result.success
    /\ exec_result.success =>
         /\ handler_tasks # <<>>
         /\ handler_tasks[Len(handler_tasks)].state = "returned"
    /\ ~active_executions

\* the handler of an action that is not retried raised, and execute_action
\* has returned the failure
C24_Witness ==
  /\ exec_pc = "returned"
  /\ handler_tasks # <<>>
  /\ handler_tasks[Len(handler_tasks)].state = "raised"
  /\ exec_result = [success |-> FALSE, error |-> "Action failed", attempts |-> 1]
  /\ scenario = "exec_py310"

\* C27: in every state unregister_agent answers every agent id with a
\* boolean, never with an exception, and with true exactly for the registered
\* ids; and a task is assigned only to an agent that is registered, so never
\* to one that has been unregistered.
C27_UnregisterAnswersBoolean ==
  /\ [](\A a \in AgentIds :
          /\ UnregisterResult(a) \in {"true", "false"}
          /\ UnregisterResult(a) = "true" <=> a \in agents)
  /\ [][\A t \in TaskIds :
          proc[t].pc = "none" /\ proc'[t].pc = "scheduled" => proc'[t].agent \in agents']_vars

\* C28: an iteration of the assignment loop that does not assign a task
\* because the queue is empty, no agent is available, the head is scheduled
\* for the future, the head has unmet dependencies or no agent suits the head
\* ends in a sleep: after it the loop does not hold the event loop.
C28_LoopSleepsWhenNotAssigning ==
  [][LoopIdle \/ LoopDefer \/ LoopRequeue \/ LoopNoAgent => ~spinning']_vars

\* C30: a task without a required agent type is assigned to the first
\* available executive agent if the executive pool is not empty, else to the
\* first available manager agent, else to the first available task agent,
\* whatever its priority.
C30_FallbackThroughTierOrder ==
  [][\A t \in TaskIds :
       /\ proc[t].pc = "none" /\ proc'[t].pc = "scheduled"
       /\ tasks[t].required_agent_type = None
       => proc'[t].agent =
            Head(IF available_agents[EXECUTIVE] # <<>> THEN available_agents[EXECUTIVE]
                 ELSE IF available_agents[MANAGER] # <<>> THEN available_agents[MANAGER]
                 ELSE available_agents[TASK])]_vars

\* the timestamp of the queue entry of a queued task
QueueTime(t) == (CHOOSE e \in task_queue : e[3] = t)[2]

\* the task is PENDING and in the queue, with its dependencies met and no
\* scheduled time in the future
Ready(t) ==
  /\ tasks[t].status = PENDING
  /\ \E e \in task_queue : e[3] = t
  /\ DependenciesMet(tasks[t])
  /\ ~ScheduledInFuture(tasks[t])

\* two ready tasks of the same priority band with the same agent requirement
SameBand(a, b) ==
  /\ a # b /\ Ready(a) /\ Ready(b)
  /\ tasks[a].priority = tasks[b].priority
  /\ tasks[a].required_agent_type = tasks[b].required_agent_type

\* Task a was created strictly before task b, as far as the state shows it:
\* neither was retried; b's queue timestamp lies below the dependency recheck
\* delay, so it is b's creation time; a's lies in the future, so a was
\* requeued by the dependency recheck at QueueTime(a) - DepRecheckDelay, and
\* was created no later than that.
CreatedBefore(a, b) ==
  /\ tasks[a].retry_count = 0 /\ tasks[b].retry_count = 0
  /\ QueueTime(b) < DepRecheckDelay
  /\ QueueTime(a) > now
  /\ QueueTime(a) - DepRecheckDelay < QueueTime(b)

\* the loop assigns task t in this step
Assigned(t) == proc[t].pc = "none" /\ proc'[t].pc = "scheduled"

\* C29 (as stated): of two ready PENDING tasks of equal priority and equal
\* agent requirement, the one created later is not assigned while the one
\* created earlier waits.
C29_EarlierCreatedFirst ==
  [][\A a, b \in DOMAIN tasks :
       SameBand(a, b) /\ CreatedBefore(a, b) => ~Assigned(b)]_vars

\* C29 (amended): of two ready PENDING tasks of equal priority and equal
\* agent requirement, the one with the later queue timestamp (creation time,
\* or the time set by the last requeue) is not assigned while the one with
\* the earlier queue timestamp waits.
C29_EarlierQueuedFirst ==
  [][\A a, b \in DOMAIN tasks :
       SameBand(a, b) /\ QueueTime(a) < QueueTime(b) => ~Assigned(b)]_vars

\* a task was assigned while a task of the same band that was submitted
\* before it, and requeued by the dependency recheck, waits ready
C29_Witness ==
  \E a, b \in DOMAIN tasks :
    /\ a < b
    /\ tasks[b].status = ASSIGNED /\ proc[b].pc = "scheduled"
    /\ Ready(a) /\ tasks[a].retry_count = 0 /\ QueueTime(a) > now
    /\ tasks[a].dependencies # {}
    /\ tasks[a].priority = tasks[b].priority
    /\ tasks[a].required_agent_type = tasks[b].required_agent_type

\* C22: every execute_with_dependencies call returns, with a result for
\* every action id it was given; the actions that were never executable have
\* a failure for a result.
C22_DependenciesTerminate ==
  /\ [](batch_pc = "returned" /\ batch_call.mode = "dependencies"
        => /\ DOMAIN results = DOMAIN batch_call.actions
           /\ \A i \in pending : ~results[i].success)
  /\ batch_call.mode = "dependencies"
       ~> (batch_pc = "returned" /\ DOMAIN results = DOMAIN batch_call.actions)

\* C23: every execute_actions call, sequential or parallel, returns, with
\* exactly one result for every action id of its batch, whatever the
\* actions of the batch do.
C23_OneResultPerAction ==
  /\ [](batch_pc = "returned" /\ batch_call.mode \in {"sequential", "parallel"}
        => DOMAIN results = DOMAIN batch_call.actions)
  /\ batch_call.mode \in {"sequential", "parallel"}
       ~> (batch_pc = "returned" /\ DOMAIN results = DOMAIN batch_call.actions)

\* C25: after execute_decision the returned task ids are as many as the
\* decision has actions, in the order of submission, each the id of a task of
\* priority HIGH if the confidence is above 0.8 and MEDIUM otherwise; the
\* status is "scheduled", or "no_actions" if there is no action; and the call
\* adds as many tasks as the decision has actions.
C25_OneTaskPerAction ==
  /\ [](executed.called =>
          LET d == executed.decision
              ids == executed.result.task_ids
          IN  /\ Len(ids) = Len(d.actions)
              /\ executed.result.status =
                   IF d.actions = <<>> THEN "no_actions" ELSE "scheduled"
              /\ \A i \in DOMAIN ids :
                   /\ ids[i] \in DOMAIN tasks
                   /\ tasks[ids[i]].status = PENDING
                   /\ tasks[ids[i]].priority = IF d.confidence > 80 THEN HIGH ELSE MEDIUM
                   /\ \E e \in task_queue : e[1] = tasks[ids[i]].priority /\ e[3] = ids[i]
                   /\ \A j \in DOMAIN ids : i < j => ids[i] < ids[j])
  /\ [][\A d \in Decisions :
          ExecuteDecision(d) =>
            /\ Cardinality(DOMAIN tasks') = Cardinality(DOMAIN tasks) + Len(d.actions)
            /\ Cardinality(task_queue') = Cardinality(task_queue) + Len(d.actions)]_vars

\* a decision with confidence 0.8 and several actions was executed
C25_Witness ==
  /\ executed.called
  /\ executed.decision.confidence = 80
  /\ Len(executed.decision.actions) > 1
  /\ executed.result.status = "scheduled"
  /\ \A i \in DOMAIN executed.result.task_ids :
       tasks[executed.result.task_ids[i]].priority = MEDIUM

\* the text of the section of a response: what follows its header up to the
\* next line that starts with "**", stripped
SectionText(r, name) ==
  LET i == Least({k \in DOMAIN r : r[k].head = name})
      stop == Least({k \in DOMAIN r : k > i /\ r[k].head # None} \cup {Len(r) + 1})
  IN  Strip([k \in 1..(stop - i) |->
               IF k = 1 THEN [head |-> None, body |-> r[i].body] ELSE r[i + k - 1]])

\* C26: the result of parsing a response has confidence 0.5 if no line starts
\* with the Confidence header, and a confidence between 0 and 1 in any case;
\* its decision and reasoning are the texts of their sections (so non-empty
\* if the section has a text), and empty if no line starts with their header.
C26_SectionsParsed ==
  parsed.called =>
    LET r == parsed.response
        d == parsed.result
    IN  /\ (\A k \in DOMAIN r : r[k].head # "Confidence") => d.confidence = 50
        /\ d.confidence \in 0..100
        /\ d.decision = IF \E k \in DOMAIN r : r[k].head = "Decision"
                        THEN SectionText(r, "Decision") ELSE <<>>
        /\ d.reasoning = IF \E k \in DOMAIN r : r[k].head = "Reasoning"
                         THEN SectionText(r, "Reasoning") ELSE <<>>

\* C31: a subscriber callback is only invoked with an event of a type it is
\* subscribed to at that moment (any type for a global subscriber) that the
\* filter it registered accepts, whatever was subscribed and unsubscribed
\* before.
C31_OnlySubscribedAndAccepted ==
  [][\A d \in delivered' \ delivered :
       d[1] \in SubscriberIds =>
         /\ d[1] \in subscribers[published[d[2]].type] \cup global_subscribers
         /\ d[1] \in DOMAIN registered =>
              FilterResult(registered[d[1]], published[d[2]]) = "accept"]_vars

\* C32: unregister_agent of a registered agent a appends a to the departed
\* list of every conversation that has a as a participant, closes (and takes
\* out of the active set) those of them without another participant that is
\* still registered and only those, and leaves every other conversation, and
\* its membership of the active set, as it was.
C32_UnregisterDepartsAndCloses ==
  [][\A a \in agent_directory \ agent_directory' :
       /\ DOMAIN conversations' = DOMAIN conversations
       /\ \A c \in DOMAIN conversations :
            LET old == conversations[c]
                new == conversations'[c]
                others == {p \in Range(old.participants) :
                             p # a /\ p \in agent_directory'}
            IN  IF a \in Range(old.participants)
                THEN /\ new.departed = Append(old.departed, a)
                     /\ new.participants = old.participants
                     /\ new.messages = old.messages
                     /\ IF others = {}
                        THEN new.status = "closed" /\ c \notin active_conversations'
                        ELSE /\ new.status = old.status
                             /\ c \in active_conversations' <=> c \in active_conversations
                ELSE /\ new = old
                     /\ c \in active_conversations' <=> c \in active_conversations]_vars

\* agent 1 has just unregistered: its own conversation is closed, the one it
\* shares with agent 2, who is registered, has it departed and is active,
\* and the conversation of agent 2 alone is untouched
C32_Witness ==
  /\ 1 \notin agent_directory /\ 2 \in agent_directory
  /\ Len(system_tasks) = 2
  /\ system_tasks[1] = Message(BROADCAST, System, <<>>, 0, FALSE)
  /\ \E c1, c2, c3 \in DOMAIN conversations :
       /\ Range(conversations[c1].participants) = {1}
       /\ conversations[c1].status = "closed" /\ c1 \notin active_conversations
       /\ conversations[c1].departed = <<1>>
       /\ Range(conversations[c2].participants) = {1, 2}
       /\ conversations[c2].status = "active" /\ c2 \in active_conversations
       /\ conversations[c2].departed = <<1>>
       /\ system_tasks[2].conversation_id = c2
       /\ Range(conversations[c3].participants) = {2}
       /\ conversations[c3].departed = <<>> /\ c3 \in active_conversations

\* the number of times message id m is in the message list l
Occurrences(l, m) == Cardinality({i \in DOMAIN l : l[i] = m})

\* C33: every stored message has the id of a conversation there is, and the
\* message list of that conversation holds the message id exactly once; a
\* send_message that is accepted for a message with the id of a conversation
\* there is appends the message to that conversation and creates no
\* conversation, and one for a message without a conversation id creates
\* exactly one conversation, which is active and holds the message.
C33_MessagesInConversations ==
  /\ [](\A m \in DOMAIN messages :
          /\ messages[m].conversation_id \in DOMAIN conversations
          /\ Occurrences(conversations[messages[m].conversation_id].messages, m) = 1)
  /\ [][(comm_log' # <<>> /\ comm_log'[1][1] = "send" /\ send_result' # 0) =>
          LET msg == comm_log'[1][2]
              id == send_result'
              n == Len(conversations)
          IN  /\ msg.conversation_id \in DOMAIN conversations =>
                   /\ Len(conversations') = n
                   /\ active_conversations' = active_conversations
                   /\ messages'[id].conversation_id = msg.conversation_id
                   /\ \A c \in DOMAIN conversations :
                        /\ SubSeq(conversations'[c].messages, 1,
                                  Len(conversations[c].messages)) =
                             conversations[c].messages
                        /\ c = msg.conversation_id =>
                             conversations'[c].messages[Len(conversations[c].messages) + 1] = id
                        /\ c # msg.conversation_id => conversations'[c] = conversations[c]
              /\ msg.conversation_id = 0 =>
                   /\ Len(conversations') = n + 1
                   /\ active_conversations' = active_conversations \cup {n + 1}
                   /\ conversations'[n + 1].status = "active"
                   /\ messages'[id].conversation_id = n + 1
                   /\ conversations'[n + 1].messages[1] = id
                   /\ \A c \in DOMAIN conversations : conversations'[c] = conversations[c]]_vars

\* a group conversation holds its initial message, a reply to it and a
\* message sent with its id, and there is no other conversation
C33_Witness ==
  /\ Len(conversations) = 1
  /\ conversations[1].participants = <<1, 2>>
  /\ conversations[1].messages = <<1, 2, 3>>
  /\ messages[1].type = "notification"
  /\ messages[2].in_reply_to = 1 /\ messages[2].sender = 2
  /\ messages[3].type = "request"

\* the ids action i of the batch depends on, directly or through other
\* actions of the batch
TransitiveDependencies(actions, i) ==
  LET RECURSIVE Up(_, _)
      Up(S, k) ==
        IF k = 0 THEN S
        ELSE Up(S \cup UNION {actions[j].dependencies : j \in S \cap DOMAIN actions},
                k - 1)
  IN  Up(actions[i].dependencies, MaxBatch)

\* action i of an execute_with_dependencies call depends, directly or
\* transitively, on an action of the call that has failed: its
\* execute_action has returned a failure, or it got one for its dependencies
DependsOnFailed(i) ==
  /\ batch_call.mode = "dependencies"
  /\ i \in DOMAIN batch_call.actions
  /\ \E j \in TransitiveDependencies(batch_call.actions, i) :
       \/ j \in DOMAIN results /\ ~results[j].success
       \/ /\ j \in DOMAIN executions
          /\ executions[j].state = "returned" /\ ~executions[j].success

\* the part of C34 that says what never happens: an action is executed only
\* when each of its dependencies has a successful result of the call, never
\* when it depends on a failed action, and not a second time
DependenciesRespected ==
  /\ [](batch_call.mode = "dependencies" =>
          /\ \A i \in DOMAIN executions :
               /\ batch_call.actions[i].dependencies \subseteq
                    {j \in DOMAIN results : results[j].success}
               /\ ~DependsOnFailed(i)
          /\ \A i \in DOMAIN results : DependsOnFailed(i) => ~results[i].success)
  /\ [][batch_call'.mode = "dependencies" /\ executions' # executions =>
          \A i \in DOMAIN executions' :
            \/ i \in DOMAIN executions /\ i \notin pending /\ i \notin pending'
            \/ i \in pending /\ i \notin pending' /\ i \notin DOMAIN executions
            \/ batch_pc = "idle" /\ i \notin pending']_vars

\* C34: execute_with_dependencies starts the handler of an action only when
\* every one of its dependency ids has a successful result of the same call;
\* an action that depends directly or transitively on a failed action is
\* never executed and gets a result with success = false; no action of the
\* batch is executed a second time.
C34_DependenciesBeforeDependents ==
  /\ DependenciesRespected
  /\ \A i \in 1..MaxBatch :
       DependsOnFailed(i) ~> (i \in DOMAIN results /\ ~results[i].success)

\* C35: cancel_action returns False when no execution of the action is in
\* progress; when it has returned True while execute_action had not returned
\* (the handler ran, or execute_action waited in a retry backoff), the
\* handler is not invoked again, and execute_action returns success = false
\* with the error of a cancellation.
C35_CancelEndsExecution ==
  cancel_result.called =>
    /\ cancel_result.pc \in {"idle", "returned"} => ~cancel_result.result
    /\ cancel_result.result /\ cancel_result.pc \in {"running", "backoff"} =>
         /\ Len(handler_tasks) = cancel_result.invocations
         /\ exec_pc = "returned" =>
              /\ ~exec_result.success
              /\ exec_result.error = "Action was cancelled"

\* event e of the history is one that the get_recent_events call c asks for
Requested(c, e) ==
  /\ c.types \in {NoTypes, {}} \/ published[e].type \in c.types
  /\ c.filter # None => FilterResult(c.filter, published[e]) = "accept"

\* C36: the event history never holds more than max_history_size events; an
\* event whose processing ends is appended to it, and the oldest entry
\* leaves a history that is full; get_recent_events returns, newest first,
\* the newest events of the history that are of the requested types and
\* accepted by the predicate, at most `limit` of them.
C36_HistoryBoundedAndRecent ==
  /\ [](Len(event_history) <= max_history_size)
  /\ [][events_processed' = events_processed + 1 =>
          \E e \in processed' \ processed :
            event_history' =
              Append(IF Len(event_history) = max_history_size
                     THEN Tail(event_history) ELSE event_history, e)]_vars
  /\ [][recent' # recent =>
          LET c == recent'
              r == c.result
              asked == {e \in Range(event_history) : Requested(c, e)}
          IN  /\ Len(r) <= c.limit
              /\ Range(r) \subseteq asked
              /\ Cardinality(Range(r)) = Len(r)
              /\ Len(r) < c.limit => Range(r) = asked
              /\ \A i, j \in DOMAIN r :
                   i < j => published[r[i]].timestamp >= published[r[j]].timestamp
              /\ \A e \in asked \ Range(r), x \in Range(r) :
                   published[e].timestamp <= published[x].timestamp]_vars

\* more events have been processed than the history holds, and
\* get_recent_events has returned as many events as its limit, an older one
\* after a newer one that is behind it in the history
C36_Witness ==
  /\ events_processed > max_history_size
  /\ Len(event_history) = max_history_size
  /\ recent.called
  /\ Len(recent.result) = recent.limit
  /\ \E i, j \in DOMAIN event_history :
       /\ i < j
       /\ recent.result = <<event_history[j], event_history[i]>>
       /\ published[event_history[j]].timestamp > published[event_history[i]].timestamp

\* C37: the status of a task that is COMPLETED, CANCELLED or FAILED (a task
\* is FAILED only when no retry is left) is the same after every step; so
\* cancel_task on such a task changes nothing.
C37_TerminalStatusIsFinal ==
  [][\A t \in DOMAIN tasks :
       tasks[t].status \in Terminal => tasks'[t].status = tasks[t].status]_vars

\* the queue's head is a PENDING task the loop cannot assign: no agent of
\* its required tier is available, or its scheduled time (the retry backoff
\* sets one) has not arrived
HeadBlocked ==
  /\ task_queue # {}
  /\ HeadId \in DOMAIN tasks /\ HeadTask.status = PENDING
  /\ \/ ScheduledInFuture(HeadTask)
     \/ DependenciesMet(HeadTask) /\ FindAvailableAgent(HeadTask) = NoAgent

\* task t waits ready behind a blocked head while an agent that suits it is
\* available
WaitsBehindHead(t) ==
  /\ t \in DOMAIN tasks /\ Ready(t)
  /\ FindAvailableAgent(tasks[t]) # NoAgent
  /\ HeadBlocked /\ HeadId # t

\* C38: a ready PENDING task for which a suitable agent is available is
\* eventually assigned although a task ordered before it in the queue cannot
\* be assigned yet: no task waits ready behind a blocked head, with a
\* suitable agent available, for ever.
C38_ReadyTaskBehindHeadAssigned ==
  \A t \in TaskIds : []<>~WaitsBehindHead(t)

\* the engine's agent holds a task the scheduler assigned to it
HoldsTask(a) == \E t \in DOMAIN active_tasks : active_tasks[t] = a

\* C39: the executive agent that make_decision registers with the scheduler
\* is never handed a scheduler task while a decision is in progress, and when
\* no decision is in progress (every call has returned or raised) that agent
\* is neither in the scheduler's registry nor in a pool of available agents.
C39_DecisionAgentStaysPrivate ==
  /\ deciding > 0 => ~HoldsTask(DecisionAgent)
  /\ deciding = 0 =>
       /\ DecisionAgent \notin agents
       /\ \A ty \in AgentTypes : DecisionAgent \notin Range(available_agents[ty])

====
